---------------------------- MODULE Spec2Model ----------------------------
(***************************************************************************)
(* A model of the ThunderBorg driver (tborg/tborg.py): board discovery,    *)
(* address negotiation and the write/read command framing with retry.      *)
(*                                                                         *)
(* The I2C bus is the environment.  A bus is a character device            *)
(* /dev/i2c-N that exists or not; an address on it holds a ThunderBorg,    *)
(* another board of the same family (it echoes the command and reports     *)
(* another identifier), or nothing; an address may be claimed by a kernel  *)
(* driver, in which case the I2C_SLAVE bind fails.  A write to an address  *)
(* where nothing answers raises IOError.  A read returns the answer to     *)
(* the last command written (6 bytes) or, while stale frames are pending   *)
(* on the channel, the next stale frame, which may be short or empty.      *)
(* One transfer to come may be disturbed: it raises IOError or             *)
(* KeyboardInterrupt, or the read returns a frame that echoes the command  *)
(* with every other byte 0xFF.                                             *)
(*                                                                         *)
(* Every public operation is one action.  The operators below thread an    *)
(* execution state e through the calls the operation makes:                *)
(*   e.tb      the ThunderBorg instance's streams                          *)
(*   e.peer    the streams of the other instance the caller holds          *)
(*   e.tborgs  where the ThunderBorg boards are (SET_I2C_ADD moves one)    *)
(*   e.stale   the stale frames pending on the channel                     *)
(*   e.fault   the transfer that will fail, if any                         *)
(*   e.regs    the registers of the ThunderBorg board                      *)
(*   e.log     the I/O events of the call, oldest first                    *)
(* and return [e, exc, val]: the state after, the exception raised         *)
(* ("none" when the call returned) and the value returned.                 *)
(*                                                                         *)
(* Spec is the discovery and address negotiation on a set of bus layouts.  *)
(* DriveSpec and SettingsSpec start from a connected instance: the motors  *)
(* with the failsafe and the passing of time, and the LEDs, the boolean    *)
(* settings and the battery limits.  What the board does with a command    *)
(* is taken from the docstrings of the commands.  FrameSpec is the frames  *)
(* written by every command on a connected instance, the external LED      *)
(* chain included; FaultSpec the operations under disturbed transfers,     *)
(* from an instance that has no stream yet; StreamSpec the streams left    *)
(* by the constructor and set_i2c_address on bus layouts where an open or  *)
(* a bind fails, no board answers or the new address is taken.  PairSpec   *)
(* is a caller holding two instances; RaceSpec two callers running _read   *)
(* on one instance, one write or read at a time (callers, lock and asked   *)
(* change there only); SetSpec the set operations with a write that may    *)
(* fail.                                                                   *)
(***************************************************************************)
EXTENDS Integers, Sequences, FiniteSets, TLC

VARIABLES
    busses,   \* the bus numbers N for which /dev/i2c-N exists
    tborgs,   \* <<bus, address>> of every ThunderBorg board
    others,   \* <<bus, address>> of every other board
    busy,     \* <<bus, address>> that a kernel driver has claimed
    stale,    \* [frame, n]: n stale frames are pending on the channel
    fault,    \* [kind, at]: the at-th transfer from now on raises kind
    session,  \* the caller's ThunderBorg instance (its streams)
    peer,     \* another ThunderBorg instance the caller holds
    callers,  \* where each concurrent caller of _read is in its exchange
    lock,     \* [used, by]: the lock the callers serialize with, if any
    asked,    \* [cmd, by, taken]: the command the board answers next
    regs,     \* the registers of the ThunderBorg board
    sent,     \* the settings the caller last wrote with success
    op,       \* the last public operation called, with its arguments
    ret,      \* how it ended: [exc, val]
    log       \* the I/O events it performed, oldest first

vars == <<busses, tborgs, others, busy, stale, fault, session, peer,
          callers, lock, asked, regs, sent, op, ret, log>>

---------------------------------------------------------------------------
(* Class constants, tborg.py lines 46-133.                                 *)

DEFAULT_BUS_NUM == 1
DEFAULT_I2C_ADDRESS == 21
_POSSIBLE_BUSS == <<0, 1>>
_I2C_ID_THUNDERBORG == 21
_I2C_READ_LEN == 6
_PWM_MAX == 255
COMMAND_SET_LED1 == 1
COMMAND_GET_LED1 == 2
COMMAND_SET_LED2 == 3
COMMAND_GET_LED2 == 4
COMMAND_SET_LEDS == 5
COMMAND_SET_LED_BATT_MON == 6
COMMAND_GET_LED_BATT_MON == 7
COMMAND_SET_A_FWD == 8
COMMAND_SET_A_REV == 9
COMMAND_GET_A == 10
COMMAND_SET_B_FWD == 11
COMMAND_SET_B_REV == 12
COMMAND_GET_B == 13
COMMAND_ALL_OFF == 14
COMMAND_GET_DRIVE_A_FAULT == 15
COMMAND_GET_DRIVE_B_FAULT == 16
COMMAND_SET_ALL_FWD == 17
COMMAND_SET_ALL_REV == 18
COMMAND_SET_FAILSAFE == 19
COMMAND_GET_FAILSAFE == 20
COMMAND_GET_BATT_VOLT == 21
COMMAND_SET_BATT_LIMITS == 22
COMMAND_GET_BATT_LIMITS == 23
COMMAND_WRITE_EXTERNAL_LED == 24
COMMAND_VALUE_FWD == 1
COMMAND_VALUE_REV == 2
COMMAND_VALUE_OFF == 0
COMMAND_VALUE_ON == 1
COMMAND_GET_ID == 153
COMMAND_SET_I2C_ADD == 170
COMMAND_ANALOG_MAX == 1023
\* The address limits of set_i2c_address (0x03, 0x77) and the range of
\* find_board, range(0x03, 0x77, 1).
ADDR_MIN == 3
ADDR_MAX == 119
SCAN_START == 3
SCAN_STOP == 119
RETRY_COUNT == 3
\* Time is counted in ticks of 0.05 s: the failsafe shuts the motors down
\* after 1/4 of a second, set_battery_monitoring_limits sleeps 0.2 s.
FAILSAFE_TICKS == 5
EEPROM_TICKS == 4

---------------------------------------------------------------------------
(* The instance's streams.  _i2c_read and _i2c_write are opened and bound  *)
(* together, so one record stands for the pair: has (the attributes        *)
(* exist), open, and the bus and address they are bound to (-1: none).     *)

NoStreams == [has |-> FALSE, open |-> FALSE, bus |-> -1, addr |-> -1]

\* No transfer is going to fail.
NoFault == [kind |-> "none", at |-> 0]

\* A transfer (a write or a read on a stream) is attempted: it fails when
\* it is the one the fault is due at, unless the fault only garbles what
\* is read.
Strikes(e) == e.fault.at = 1 /\ e.fault.kind # "garbled"

\* The read returns the echo of the command followed by bytes of 0xFF.
Garbles(e) == e.fault.at = 1 /\ e.fault.kind = "garbled"

\* How the failing transfer is recorded: as the transfer that failed, or
\* as the interruption that cut it.
Failed(ev, e) == IF e.fault.kind = "KeyboardInterrupt" THEN "interrupt" ELSE ev

\* The state after the transfer, failed or not.
Transferred(e) ==
    [e EXCEPT !.fault = IF e.fault.at > 1
                        THEN [e.fault EXCEPT !.at = @ - 1]
                        ELSE NoFault]

Event(ev, bus, addr, frame, ok) ==
    [ev |-> ev, bus |-> bus, addr |-> addr, frame |-> frame, ok |-> ok]

Result(e, exc, val) == [e |-> e, exc |-> exc, val |-> val]

Kind(e, bus, addr) ==
    IF <<bus, addr>> \in e.tborgs THEN "tborg"
    ELSE IF <<bus, addr>> \in others THEN "other"
    ELSE "none"

\* The 6 bytes a board answers to the command it was last sent.
Response(kind, command) ==
    IF command = COMMAND_GET_ID
    THEN <<command,
           IF kind = "tborg" THEN _I2C_ID_THUNDERBORG
                             ELSE _I2C_ID_THUNDERBORG + 1,
           0, 0, 0, 0>>
    ELSE <<command, 0, 0, 0, 0, 0>>

\* A float is the exact fraction <<numerator, denominator>>, denominator
\* above 0.
_VOLTAGE_PIN_MAX == <<363, 10>>
_VOLTAGE_PIN_CORRECTION == <<0, 1>>
_BATTERY_MIN_DEFAULT == <<7, 1>>
_BATTERY_MAX_DEFAULT == <<35, 1>>

\* Python's int(n / d): the fraction truncated towards zero.
Trunc(n, d) == IF n >= 0 THEN n \div d ELSE -((-n) \div d)

\* int(k * x) for the float x.
IntOfScaled(k, x) == Trunc(k * x[1], x[2])

\* int(float(volts) / _VOLTAGE_PIN_MAX * 0xFF).
IntOfVolts(volts) ==
    Trunc(volts[1] * _VOLTAGE_PIN_MAX[2] * 255, volts[2] * _VOLTAGE_PIN_MAX[1])

Min(a, b) == IF a < b THEN a ELSE b
Max(a, b) == IF a > b THEN a ELSE b

\* The registers of a board that was just powered: motors stopped, the
\* failsafe and the LED battery monitor disabled, LEDs off, the default
\* battery limits.  quiet is the time since the last speed command, up to
\* one tick past the failsafe delay; cut holds the motors the failsafe has
\* shut down since they were last set; pending holds battery limits on
\* their way to the EEPROM, with their age.
PowerOn ==
    [a |-> <<COMMAND_VALUE_FWD, 0>>, b |-> <<COMMAND_VALUE_FWD, 0>>,
     failsafe |-> COMMAND_VALUE_OFF, quiet |-> 0, cut |-> {},
     ledmon |-> COMMAND_VALUE_OFF,
     led1 |-> <<0, 0, 0>>, led2 |-> <<0, 0, 0>>,
     limits |-> <<IntOfVolts(_BATTERY_MIN_DEFAULT),
                  IntOfVolts(_BATTERY_MAX_DEFAULT)>>,
     pending |-> <<>>]

\* The failsafe: when it is enabled and no speed command came for more
\* than 1/4 of a second, both motors are stopped.
Failsafe(r) ==
    IF r.failsafe = COMMAND_VALUE_ON /\ r.quiet > FAILSAFE_TICKS
    THEN [r EXCEPT !.a = <<COMMAND_VALUE_FWD, 0>>,
                   !.b = <<COMMAND_VALUE_FWD, 0>>,
                   !.cut = {"a", "b"}]
    ELSE r

\* What a frame does to the registers of the ThunderBorg that receives it.
BoardStore(r, frame) ==
    LET c == frame[1]
        n == Len(frame)
        Speed(q) == [q EXCEPT !.quiet = 0]
    IN  IF n = 2 /\ c = COMMAND_SET_A_FWD
        THEN Speed([r EXCEPT !.a = <<COMMAND_VALUE_FWD, frame[2]>>,
                             !.cut = @ \ {"a"}])
        ELSE IF n = 2 /\ c = COMMAND_SET_A_REV
        THEN Speed([r EXCEPT !.a = <<COMMAND_VALUE_REV, frame[2]>>,
                             !.cut = @ \ {"a"}])
        ELSE IF n = 2 /\ c = COMMAND_SET_B_FWD
        THEN Speed([r EXCEPT !.b = <<COMMAND_VALUE_FWD, frame[2]>>,
                             !.cut = @ \ {"b"}])
        ELSE IF n = 2 /\ c = COMMAND_SET_B_REV
        THEN Speed([r EXCEPT !.b = <<COMMAND_VALUE_REV, frame[2]>>,
                             !.cut = @ \ {"b"}])
        ELSE IF n = 2 /\ c = COMMAND_SET_ALL_FWD
        THEN Speed([r EXCEPT !.a = <<COMMAND_VALUE_FWD, frame[2]>>,
                             !.b = <<COMMAND_VALUE_FWD, frame[2]>>,
                             !.cut = {}])
        ELSE IF n = 2 /\ c = COMMAND_SET_ALL_REV
        THEN Speed([r EXCEPT !.a = <<COMMAND_VALUE_REV, frame[2]>>,
                             !.b = <<COMMAND_VALUE_REV, frame[2]>>,
                             !.cut = {}])
        ELSE IF n = 2 /\ c = COMMAND_ALL_OFF
        THEN Speed([r EXCEPT !.a = <<COMMAND_VALUE_FWD, 0>>,
                             !.b = <<COMMAND_VALUE_FWD, 0>>,
                             !.cut = {}])
        ELSE IF n = 2 /\ c = COMMAND_SET_FAILSAFE
        THEN Failsafe([r EXCEPT !.failsafe = IF frame[2] = COMMAND_VALUE_OFF
                                             THEN COMMAND_VALUE_OFF
                                             ELSE COMMAND_VALUE_ON])
        ELSE IF n = 2 /\ c = COMMAND_SET_LED_BATT_MON
        THEN [r EXCEPT !.ledmon = IF frame[2] = COMMAND_VALUE_OFF
                                  THEN COMMAND_VALUE_OFF
                                  ELSE COMMAND_VALUE_ON]
        ELSE IF n = 4 /\ c = COMMAND_SET_LED1
        THEN [r EXCEPT !.led1 = SubSeq(frame, 2, 4)]
        ELSE IF n = 4 /\ c = COMMAND_SET_LED2
        THEN [r EXCEPT !.led2 = SubSeq(frame, 2, 4)]
        ELSE IF n = 4 /\ c = COMMAND_SET_LEDS
        THEN [r EXCEPT !.led1 = SubSeq(frame, 2, 4),
                       !.led2 = SubSeq(frame, 2, 4)]
        ELSE IF n = 3 /\ c = COMMAND_SET_BATT_LIMITS
        THEN [r EXCEPT !.pending = <<frame[2], frame[3], 0>>]
        ELSE r

\* The registers after ticks more ticks: the failsafe may stop the motors,
\* and battery limits reach the EEPROM when the write's time is over.
Elapse(r, ticks) ==
    LET due == /\ r.pending # <<>>
               /\ r.pending[3] + ticks >= EEPROM_TICKS
    IN  Failsafe([r EXCEPT
                    !.quiet = Min(r.quiet + ticks, FAILSAFE_TICKS + 1),
                    !.limits = IF due THEN SubSeq(r.pending, 1, 2) ELSE @,
                    !.pending = IF r.pending = <<>> \/ due
                                THEN <<>>
                                ELSE <<r.pending[1], r.pending[2],
                                       r.pending[3] + ticks>>])

\* The 6 bytes the board at the bound address answers to a command: a
\* ThunderBorg answers the get commands from its registers.
Answer(e, command) ==
    LET kind == IF <<e.tb.bus, e.tb.addr>> \in e.tborgs THEN "tborg"
                ELSE IF <<e.tb.bus, e.tb.addr>> \in others THEN "other"
                ELSE "none"
        r == e.regs
    IN  IF kind # "tborg" THEN Response(kind, command)
        ELSE IF command = COMMAND_GET_A
        THEN <<command, r.a[1], r.a[2], 0, 0, 0>>
        ELSE IF command = COMMAND_GET_B
        THEN <<command, r.b[1], r.b[2], 0, 0, 0>>
        ELSE IF command = COMMAND_GET_FAILSAFE
        THEN <<command, r.failsafe, 0, 0, 0, 0>>
        ELSE IF command = COMMAND_GET_LED_BATT_MON
        THEN <<command, r.ledmon, 0, 0, 0, 0>>
        ELSE IF command = COMMAND_GET_LED1
        THEN <<command, r.led1[1], r.led1[2], r.led1[3], 0, 0>>
        ELSE IF command = COMMAND_GET_LED2
        THEN <<command, r.led2[1], r.led2[2], r.led2[3], 0, 0>>
        ELSE IF command = COMMAND_GET_BATT_LIMITS
        THEN <<command, r.limits[1], r.limits[2], 0, 0, 0>>
        ELSE Response(kind, command)

\* body(v) with v evaluated once, before body is: the value of one call
\* handed to the code that follows it.
Let(v, body(_)) == CHOOSE r \in { body(x) : x \in {v} } : TRUE

Logged(e, event) == [e EXCEPT !.log = Append(@, event)]

\* close_streams that flips the state of the streams.
close_streams_Toggle(e) ==
    IF e.tb.has
    THEN [e EXCEPT !.tb.open = ~@,
                   !.log = Append(@, Event("close", e.tb.bus, e.tb.addr,
                                           <<>>, e.tb.open))]
    ELSE e

\* close_streams: closes both streams when the attributes exist; closing
\* a closed stream does nothing (the event is logged with ok = FALSE).
close_streams(e) ==
    IF e.tb.has
    THEN [e EXCEPT !.tb.open = FALSE,
                   !.log = Append(@, Event("close", e.tb.bus, e.tb.addr,
                                           <<>>, e.tb.open))]
    ELSE e

\* _init_bus with the streams kept in the class: the other instance sees
\* the new ones.
_init_bus_Shared(e, bus_num, address) ==
    IF bus_num \notin busses
    THEN Let(Logged(e, Event("open", bus_num, address, <<>>, FALSE)),
             LAMBDA e1 : Result(close_streams(e1), "none", FALSE))
    ELSE Let([e EXCEPT !.tb = [has |-> TRUE, open |-> TRUE,
                               bus |-> bus_num, addr |-> -1],
                       !.log = Append(@, Event("open", bus_num, address,
                                               <<>>, TRUE))],
             LAMBDA e1 :
               IF <<bus_num, address>> \in busy
               THEN Let(Logged(e1, Event("bind", bus_num, address, <<>>,
                                         FALSE)),
                        LAMBDA e2 : Result(close_streams(e2), "none", FALSE))
               ELSE Result([e1 EXCEPT !.tb.addr = address,
                                      !.peer = [has |-> TRUE, open |-> TRUE,
                                                bus |-> bus_num,
                                                addr |-> address]],
                           "none", TRUE))

\* _init_bus: open /dev/i2c-<bus_num> for read and write, then bind both
\* streams to the address.  Either failure closes the streams and gives
\* False.
_init_bus(e, bus_num, address) ==
    IF bus_num \notin busses
    THEN Let(Logged(e, Event("open", bus_num, address, <<>>, FALSE)),
             LAMBDA e1 : Result(close_streams(e1), "none", FALSE))
    ELSE Let([e EXCEPT !.tb = [has |-> TRUE, open |-> TRUE,
                               bus |-> bus_num, addr |-> -1],
                       !.log = Append(@, Event("open", bus_num, address,
                                               <<>>, TRUE))],
             LAMBDA e1 :
               IF <<bus_num, address>> \in busy
               THEN Let(Logged(e1, Event("bind", bus_num, address, <<>>,
                                         FALSE)),
                        LAMBDA e2 : Result(close_streams(e2), "none", FALSE))
               ELSE Result([e1 EXCEPT !.tb.addr = address], "none", TRUE))

\* What the board bound to the write stream does with a frame.
Deliver(e, frame) ==
    IF Kind(e, e.tb.bus, e.tb.addr) # "tborg"
    THEN e
    ELSE IF frame[1] = COMMAND_SET_I2C_ADD /\ Len(frame) = 2
    THEN [e EXCEPT !.tborgs = (@ \ {<<e.tb.bus, e.tb.addr>>})
                              \cup {<<e.tb.bus, frame[2]>>}]
    ELSE [e EXCEPT !.regs = BoardStore(@, frame)]

\* _write with the command put after the data.
_write_CommandLast(e, command, data) ==
    LET frame == data \o <<command>> IN
    IF ~e.tb.has
    THEN Result(e, "AssertionError", <<>>)
    ELSE IF \E i \in 1..Len(frame) : frame[i] \notin 0..255
    THEN Result(e, "ValueError", <<>>)
    ELSE IF ~e.tb.open
    THEN Result(Logged(e, Event("write", e.tb.bus, e.tb.addr, frame, FALSE)),
                "ThunderBorgException", <<>>)
    ELSE IF Strikes(e)
    THEN Result(Logged(Transferred(e),
                       Event(Failed("write", e), e.tb.bus, e.tb.addr, frame,
                             FALSE)),
                e.fault.kind, <<>>)
    ELSE IF Kind(e, e.tb.bus, e.tb.addr) = "none"
    THEN Result(Logged(Transferred(e),
                       Event("write", e.tb.bus, e.tb.addr, frame, FALSE)),
                "IOError", <<>>)
    ELSE Let(Logged(Transferred(e),
                    Event("write", e.tb.bus, e.tb.addr, frame, TRUE)),
             LAMBDA e1 : Result(Deliver(e1, frame), "none", <<>>))

\* _write that does not look at the state of the stream.
_write_OnClosed(e, command, data) ==
    LET frame == <<command>> \o data IN
    IF \E i \in 1..Len(frame) : frame[i] \notin 0..255
    THEN Result(e, "ValueError", <<>>)
    ELSE IF Strikes(e)
    THEN Result(Logged(Transferred(e),
                       Event(Failed("write", e), e.tb.bus, e.tb.addr, frame,
                             FALSE)),
                e.fault.kind, <<>>)
    ELSE IF Kind(e, e.tb.bus, e.tb.addr) = "none"
    THEN Result(Logged(Transferred(e),
                       Event("write", e.tb.bus, e.tb.addr, frame, FALSE)),
                "IOError", <<>>)
    ELSE Let(Logged(Transferred(e),
                    Event("write", e.tb.bus, e.tb.addr, frame, TRUE)),
             LAMBDA e1 : Result(Deliver(e1, frame), "none", <<>>))

\* _write: the frame is the command followed by the data, made into bytes
\* (a value outside 0 .. 255 is a ValueError) and written.
_write(e, command, data) ==
    LET frame == <<command>> \o data IN
    IF ~e.tb.has
    THEN Result(e, "AssertionError", <<>>)
    ELSE IF \E i \in 1..Len(frame) : frame[i] \notin 0..255
    THEN \* bytes(data), before the try
         Result(e, "ValueError", <<>>)
    ELSE IF ~e.tb.open
    THEN \* write on a closed stream: ValueError, wrapped
         Result(Logged(e, Event("write", e.tb.bus, e.tb.addr, frame, FALSE)),
                "ThunderBorgException", <<>>)
    ELSE IF Strikes(e)
    THEN Result(Logged(Transferred(e),
                       Event(Failed("write", e), e.tb.bus, e.tb.addr, frame,
                             FALSE)),
                e.fault.kind, <<>>)
    ELSE IF Kind(e, e.tb.bus, e.tb.addr) = "none"
    THEN Result(Logged(Transferred(e),
                       Event("write", e.tb.bus, e.tb.addr, frame, FALSE)),
                "IOError", <<>>)
    ELSE Let(Logged(Transferred(e),
                    Event("write", e.tb.bus, e.tb.addr, frame, TRUE)),
             LAMBDA e1 : Result(Deliver(e1, frame), "none", <<>>))

\* self._i2c_read.read(length) after the command was written.
StreamRead(e, command) ==
    IF Strikes(e)
    THEN Result(Logged(Transferred(e),
                       Event(Failed("read", e), e.tb.bus, e.tb.addr, <<>>,
                             FALSE)),
                e.fault.kind, <<>>)
    ELSE Let(IF Garbles(e)
             THEN <<command, 255, 255, 255, 255, 255>>
             ELSE IF e.stale.n > 0
             THEN e.stale.frame
             ELSE Answer(e, command),
             LAMBDA recv :
               Result([Transferred(e) EXCEPT
                         !.stale.n = IF @ > 0 THEN @ - 1 ELSE 0,
                         !.log = Append(@, Event("read", e.tb.bus, e.tb.addr,
                                                 recv, TRUE))],
                      "none", recv))

\* ReadLoop without the break: every attempt is made, whatever it reads.
RECURSIVE ReadLoop_NoBreak(_, _, _, _, _)
ReadLoop_NoBreak(e, command, retry_count, i, data) ==
    IF i >= retry_count
    THEN Result(e, "none", data)
    ELSE Let(_write(e, command, <<>>), LAMBDA w :
           IF w.exc # "none"
           THEN w
           ELSE Let(StreamRead(w.e, command), LAMBDA r :
                  ReadLoop_NoBreak(r.e, command, retry_count, i + 1, r.val)))

\* The loop of _read, from iteration i on; data is the frame of the
\* previous iteration.
RECURSIVE ReadLoop(_, _, _, _, _)
ReadLoop(e, command, retry_count, i, data) ==
    IF i >= retry_count
    THEN Result(e, "none", data)
    ELSE Let(_write(e, command, <<>>), LAMBDA w :
           IF w.exc # "none"
           THEN w
           ELSE Let(StreamRead(w.e, command), LAMBDA r :
                  IF r.exc # "none"
                  THEN r
                  ELSE IF Len(r.val) = 0
                  THEN \* data[0] of an empty list
                       Result(r.e, "IndexError", <<>>)
                  ELSE IF command = r.val[1]
                  THEN r
                  ELSE ReadLoop(r.e, command, retry_count, i + 1, r.val)))

\* _read that stops the motors before it asks.
_read_StopsFirst(e, command, length) ==
    IF ~e.tb.has
    THEN Result(e, "AssertionError", <<>>)
    ELSE Let(_write(e, COMMAND_ALL_OFF, <<0>>), LAMBDA w :
           IF w.exc # "none"
           THEN w
           ELSE Let(ReadLoop(w.e, command, RETRY_COUNT, 0, <<>>), LAMBDA l :
                  IF l.exc # "none"
                  THEN l
                  ELSE IF Len(l.val) <= 0
                  THEN Result(l.e, "ThunderBorgException", <<>>)
                  ELSE l))

_read(e, command, length) ==
    IF ~e.tb.has
    THEN Result(e, "AssertionError", <<>>)
    ELSE Let(ReadLoop(e, command, RETRY_COUNT, 0, <<>>), LAMBDA l :
           IF l.exc # "none"
           THEN l
           ELSE IF Len(l.val) <= 0
           THEN Result(l.e, "ThunderBorgException", <<>>)
           ELSE l)

---------------------------------------------------------------------------
(* Discovery and address negotiation (class methods).                      *)

\* _check_board_chip without the comparison of the identifier.
_check_board_chip_AnyId(recv) == Len(recv) = _I2C_READ_LEN

\* _check_board_chip: the frame has the read length and its second byte is
\* the board identifier.
_check_board_chip(recv) ==
    IF Len(recv) = _I2C_READ_LEN
    THEN recv[2] = _I2C_ID_THUNDERBORG
    ELSE FALSE

\* _is_thunder_borg_board handling every exception of the exchange as it
\* handles IOError.
_is_thunder_borg_board_CatchAll(e, bus_num, address) ==
    Let(_init_bus(e, bus_num, address), LAMBDA ib :
      IF ~ib.val
      THEN ib
      ELSE Let(_read(ib.e, COMMAND_GET_ID, _I2C_READ_LEN), LAMBDA r :
             IF r.exc # "none"
             THEN Result(r.e, "none", FALSE)
             ELSE Result(r.e, "none", _check_board_chip(r.val))))

\* _is_thunder_borg_board: bind the streams to the address and ask for the
\* board identifier; an IOError of the exchange means no board.
_is_thunder_borg_board(e, bus_num, address) ==
    Let(_init_bus(e, bus_num, address), LAMBDA ib :
      IF ~ib.val
      THEN ib
      ELSE Let(_read(ib.e, COMMAND_GET_ID, _I2C_READ_LEN), LAMBDA r :
             IF r.exc = "IOError"
             THEN Result(r.e, "none", FALSE)
             ELSE IF r.exc = "KeyboardInterrupt"
             THEN Result(close_streams(r.e), r.exc, FALSE)
             ELSE IF r.exc # "none"
             THEN Result(r.e, r.exc, FALSE)
             ELSE Result(r.e, "none", _check_board_chip(r.val))))

\* The loop of find_board, for address in range(0x03, 0x77, 1), over the
\* addresses lo .. hi - 1 in ascending order (a range of more than one
\* address is run as its lower half followed by its upper half).
RECURSIVE FindLoop(_, _, _, _, _)
FindLoop(e, bus_num, lo, hi, found) ==
    IF lo >= hi
    THEN Result(e, "none", found)
    ELSE IF hi = lo + 1
    THEN Let(_is_thunder_borg_board(e, bus_num, lo), LAMBDA p :
           Result(p.e, p.exc, IF p.val THEN Append(found, lo) ELSE found))
    ELSE Let(FindLoop(e, bus_num, lo, (lo + hi) \div 2, found),
             LAMBDA left :
               IF left.exc # "none"
               THEN left
               ELSE FindLoop(left.e, bus_num, (lo + hi) \div 2, hi,
                             left.val))

\* find_board on the instance of e (the caller passes its own, or a new
\* one made with static_init=True).
find_board(e, bus_num, close) ==
    Let(FindLoop(e, bus_num, SCAN_START, SCAN_STOP, <<>>), LAMBDA l :
      IF l.exc # "none"
      THEN l
      ELSE Result(IF close THEN close_streams(l.e) ELSE l.e, "none", l.val))

\* _auto_set_address trusting the scan: the first board found is not
\* probed again.
_auto_set_address_NoReprobe(e, bus_num) ==
    Let(find_board(e, DEFAULT_BUS_NUM, FALSE), LAMBDA f :
      IF f.exc # "none"
      THEN Result(f.e, f.exc, FALSE)
      ELSE Result(f.e, "none", Len(f.val) > 0))

\* _auto_set_address: find_board is called without a bus number, so it
\* scans the default bus; the first board found is probed on bus_num.
_auto_set_address(e, bus_num) ==
    Let(find_board(e, DEFAULT_BUS_NUM, FALSE), LAMBDA f :
      IF f.exc # "none"
      THEN Result(f.e, f.exc, FALSE)
      ELSE IF Len(f.val) > 0
      THEN _is_thunder_borg_board(f.e, bus_num, f.val[1])
      ELSE Result(f.e, "none", FALSE))

\* The loop of _initialize_board over the other busses: found_chip is the
\* result of the last probe.
RECURSIVE FallbackLoop(_, _, _, _, _)
FallbackLoop(e, buss, i, address, found_chip) ==
    IF i > Len(buss)
    THEN Result(e, "none", found_chip)
    ELSE Let(_is_thunder_borg_board(e, buss[i], address), LAMBDA p :
           IF p.exc # "none"
           THEN p
           ELSE FallbackLoop(p.e, buss, i + 1, address, p.val))

\* FallbackBusses with the condition on auto_set_addr inverted.
FallbackBusses_WhenAuto(bus_num, auto_set_addr) ==
    LET Other(bus) == auto_set_addr /\ bus # bus_num
    IN  SelectSeq(_POSSIBLE_BUSS, Other)

\* The busses _initialize_board tries after the requested one.
FallbackBusses(bus_num, auto_set_addr) ==
    LET Other(bus) == ~auto_set_addr /\ bus # bus_num
    IN  SelectSeq(_POSSIBLE_BUSS, Other)

\* _initialize_board after the probe of the requested bus and address
\* failed.
SearchBoard(e, bus_num, address, auto_set_addr) ==
    Let(FallbackLoop(e, FallbackBusses(bus_num, auto_set_addr), 1, address,
                     FALSE),
        LAMBDA fb :
          IF fb.exc # "none"
          THEN Result(fb.e, fb.exc, <<>>)
          ELSE IF fb.val
          THEN Result(fb.e, "none", <<>>)
          ELSE IF ~auto_set_addr
          THEN Result(fb.e, "ThunderBorgException", <<>>)
          ELSE Let(_auto_set_address(fb.e, bus_num), LAMBDA a :
                 IF a.exc # "none"
                 THEN Result(a.e, a.exc, <<>>)
                 ELSE IF a.val
                 THEN Result(a.e, "none", <<>>)
                 ELSE Result(a.e, "ThunderBorgException", <<>>)))

\* _initialize_board giving up when the requested bus and address do not
\* hold the board.
_initialize_board_NoSearch(e, bus_num, address, auto_set_addr) ==
    Let(_is_thunder_borg_board(e, bus_num, address), LAMBDA p :
      IF p.exc # "none" \/ p.val
      THEN Result(p.e, p.exc, <<>>)
      ELSE Result(p.e, "ThunderBorgException", <<>>))

_initialize_board(e, bus_num, address, auto_set_addr) ==
    Let(_is_thunder_borg_board(e, bus_num, address), LAMBDA p :
      IF p.exc # "none" \/ p.val
      THEN Result(p.e, p.exc, <<>>)
      ELSE SearchBoard(p.e, bus_num, address, auto_set_addr))

\* set_i2c_address after SET_I2C_ADD was written: the settle delay, then
\* the board is looked for at the new address.
ConfirmAddress(e, new_addr, bus_num) ==
    Let(Logged(e, Event("sleep", bus_num, new_addr, <<>>, TRUE)), LAMBDA s :
    Let(_init_bus(s, bus_num, new_addr), LAMBDA ib :
      IF ~ib.val
      THEN Result(close_streams(ib.e), "none", <<>>)
      ELSE Let(_read(ib.e, COMMAND_GET_ID, _I2C_READ_LEN), LAMBDA r :
             IF r.exc = "IOError"
             THEN Result(close_streams(r.e), "ThunderBorgException", <<>>)
             ELSE IF r.exc = "KeyboardInterrupt"
             THEN Result(close_streams(r.e), r.exc, <<>>)
             ELSE IF r.exc # "none"
             THEN Result(r.e, r.exc, <<>>)
             ELSE IF _check_board_chip(r.val)
             THEN Result(close_streams(r.e), "none", <<>>)
             ELSE Result(r.e, "ThunderBorgException", <<>>))))

\* ChangeAddress without the check of the identifier read at the current
\* address.
ChangeAddress_Unverified(e, new_addr, cur_addr, bus_num) ==
    Let(_init_bus(e, bus_num, cur_addr), LAMBDA ib :
      IF ~ib.val
      THEN Result(ib.e, "none", <<>>)
      ELSE Let(_read(ib.e, COMMAND_GET_ID, _I2C_READ_LEN), LAMBDA r :
             IF r.exc = "IOError"
             THEN Result(close_streams(r.e), "ThunderBorgException", <<>>)
             ELSE IF r.exc = "KeyboardInterrupt"
             THEN Result(close_streams(r.e), r.exc, <<>>)
             ELSE IF r.exc # "none"
             THEN Result(r.e, r.exc, <<>>)
             ELSE Let(_write(r.e, COMMAND_SET_I2C_ADD, <<new_addr>>),
                      LAMBDA w :
                        IF w.exc # "none"
                        THEN w
                        ELSE ConfirmAddress(w.e, new_addr, bus_num))))

\* set_i2c_address from the point where the current address is known.
ChangeAddress(e, new_addr, cur_addr, bus_num) ==
    Let(_init_bus(e, bus_num, cur_addr), LAMBDA ib :
      IF ~ib.val
      THEN Result(ib.e, "none", <<>>)
      ELSE Let(_read(ib.e, COMMAND_GET_ID, _I2C_READ_LEN), LAMBDA r :
             IF r.exc = "IOError"
             THEN Result(close_streams(r.e), "ThunderBorgException", <<>>)
             ELSE IF r.exc = "KeyboardInterrupt"
             THEN Result(close_streams(r.e), r.exc, <<>>)
             ELSE IF r.exc # "none"
             THEN Result(r.e, r.exc, <<>>)
             ELSE IF ~_check_board_chip(r.val)
             THEN Result(close_streams(r.e), "none", <<>>)
             ELSE Let(_write(r.e, COMMAND_SET_I2C_ADD, <<new_addr>>),
                      LAMBDA w :
                        IF w.exc # "none"
                        THEN w
                        ELSE ConfirmAddress(w.e, new_addr, bus_num))))

\* set_i2c_address with the upper limit of the range check off by one.
set_i2c_address_WideRange(e, new_addr, cur_addr, bus_num) ==
    IF ~(ADDR_MIN <= new_addr /\ new_addr <= ADDR_MAX + 1)
    THEN Result(e, "ThunderBorgException", <<>>)
    ELSE IF cur_addr < 0
    THEN Let(find_board(e, bus_num, TRUE), LAMBDA f :
           IF f.exc # "none"
           THEN Result(f.e, f.exc, <<>>)
           ELSE IF Len(f.val) < 1
           THEN Result(f.e, "ThunderBorgException", <<>>)
           ELSE ChangeAddress(f.e, new_addr, f.val[1], bus_num))
    ELSE ChangeAddress(e, new_addr, cur_addr, bus_num)

\* set_i2c_address taking the last board of the scan.
set_i2c_address_LastFound(e, new_addr, cur_addr, bus_num) ==
    IF ~(ADDR_MIN <= new_addr /\ new_addr <= ADDR_MAX)
    THEN Result(e, "ThunderBorgException", <<>>)
    ELSE IF cur_addr < 0
    THEN Let(find_board(e, bus_num, TRUE), LAMBDA f :
           IF f.exc # "none"
           THEN Result(f.e, f.exc, <<>>)
           ELSE IF Len(f.val) < 1
           THEN Result(f.e, "ThunderBorgException", <<>>)
           ELSE ChangeAddress(f.e, new_addr, f.val[Len(f.val)], bus_num))
    ELSE ChangeAddress(e, new_addr, cur_addr, bus_num)

\* set_i2c_address, on its own instance (static_init=True).
set_i2c_address(e, new_addr, cur_addr, bus_num) ==
    IF ~(ADDR_MIN <= new_addr /\ new_addr <= ADDR_MAX)
    THEN Result(e, "ThunderBorgException", <<>>)
    ELSE IF cur_addr < 0
    THEN Let(find_board(e, bus_num, TRUE), LAMBDA f :
           IF f.exc # "none"
           THEN Result(f.e, f.exc, <<>>)
           ELSE IF Len(f.val) < 1
           THEN Result(f.e, "ThunderBorgException", <<>>)
           ELSE ChangeAddress(f.e, new_addr, f.val[1], bus_num))
    ELSE ChangeAddress(e, new_addr, cur_addr, bus_num)

---------------------------------------------------------------------------
(* The commands of a connected instance.  A level, a colour channel and a  *)
(* voltage are floats; a float returned is the fraction the code computes. *)

\* except IOError: raise ThunderBorgException(msg).
WrapIOError(r) ==
    IF r.exc = "IOError" THEN [r EXCEPT !.exc = "ThunderBorgException"] ELSE r

\* except ValueError: raise ThunderBorgException(msg).
WrapValueError(r) ==
    IF r.exc = "ValueError" THEN [r EXCEPT !.exc = "ThunderBorgException"]
    ELSE r

\* time.sleep of so many ticks.
Sleep(e, ticks) ==
    [e EXCEPT !.regs = Elapse(@, ticks),
              !.log = Append(@, Event("sleep", e.tb.bus, e.tb.addr, <<>>,
                                      TRUE))]

\* _set_motor with the drive level rounded to the nearest PWM step.
_set_motor_Rounded(e, level, fwd, rev) ==
    LET mag == IF level[1] < 0 THEN <<-level[1], level[2]>> ELSE level
        pwm == Trunc(2 * _PWM_MAX * mag[1] + mag[2], 2 * mag[2])
    IN  WrapValueError(WrapIOError(
            _write(e, IF level[1] < 0 THEN rev ELSE fwd,
                   <<IF pwm > _PWM_MAX THEN _PWM_MAX ELSE pwm>>)))

\* _set_motor: the sign of the level selects the command, the PWM value
\* is int(_PWM_MAX * level) without its sign, at most _PWM_MAX.
_set_motor(e, level, fwd, rev) ==
    LET command == IF level[1] < 0 THEN rev ELSE fwd
        pwm == IF level[1] < 0
               THEN -IntOfScaled(_PWM_MAX, level)
               ELSE IntOfScaled(_PWM_MAX, level)
    IN  WrapValueError(WrapIOError(
            _write(e, command, <<IF pwm > _PWM_MAX THEN _PWM_MAX ELSE pwm>>)))

set_motor_one(e, level) ==
    _set_motor(e, level, COMMAND_SET_A_FWD, COMMAND_SET_A_REV)

set_motor_two(e, level) ==
    _set_motor(e, level, COMMAND_SET_B_FWD, COMMAND_SET_B_REV)

\* set_both_motors sending the commands of motor one.
set_both_motors_OnlyOne(e, level) ==
    _set_motor(e, level, COMMAND_SET_A_FWD, COMMAND_SET_A_REV)

set_both_motors(e, level) ==
    _set_motor(e, level, COMMAND_SET_ALL_FWD, COMMAND_SET_ALL_REV)

\* _get_motor without the negation of a reverse level.
_get_motor_NoNegate(e, command) ==
    Let(WrapIOError(_read(e, command, _I2C_READ_LEN)), LAMBDA r :
      IF r.exc # "none"
      THEN r
      ELSE IF r.val[2] = COMMAND_VALUE_REV
      THEN Result(r.e, "none", <<r.val[3], _PWM_MAX>>)
      ELSE IF r.val[2] # COMMAND_VALUE_FWD
      THEN Result(r.e, "ThunderBorgException", <<>>)
      ELSE Result(r.e, "none", <<r.val[3], _PWM_MAX>>))

\* _get_motor without the check of the direction byte.
_get_motor_Unchecked(e, command) ==
    Let(WrapIOError(_read(e, command, _I2C_READ_LEN)), LAMBDA r :
      IF r.exc # "none"
      THEN r
      ELSE IF r.val[2] = COMMAND_VALUE_REV
      THEN Result(r.e, "none", <<-r.val[3], _PWM_MAX>>)
      ELSE Result(r.e, "none", <<r.val[3], _PWM_MAX>>))

\* _get_motor: level = float(recv[2]) / _PWM_MAX, negated for the reverse
\* direction; any direction but forward and reverse is an error.
_get_motor(e, command) ==
    Let(WrapIOError(_read(e, command, _I2C_READ_LEN)), LAMBDA r :
      IF r.exc # "none"
      THEN r
      ELSE IF Len(r.val) < 3
      THEN Result(r.e, "IndexError", <<>>)
      ELSE IF r.val[2] = COMMAND_VALUE_REV
      THEN Result(r.e, "none", <<-r.val[3], _PWM_MAX>>)
      ELSE IF r.val[2] # COMMAND_VALUE_FWD
      THEN Result(r.e, "ThunderBorgException", <<>>)
      ELSE Result(r.e, "none", <<r.val[3], _PWM_MAX>>))

get_motor_one(e) == _get_motor(e, COMMAND_GET_A)

get_motor_two(e) == _get_motor(e, COMMAND_GET_B)

\* halt_motors stopping motor one only.
halt_motors_OnlyOne(e) ==
    WrapIOError(_write(e, COMMAND_SET_A_FWD, <<0>>))

halt_motors(e) == WrapIOError(_write(e, COMMAND_ALL_OFF, <<0>>))

\* set_comms_failsafe with the two values exchanged.
set_comms_failsafe_Inverted(e, state) ==
    WrapIOError(_write(e, COMMAND_SET_FAILSAFE,
                       <<IF state THEN COMMAND_VALUE_OFF
                                  ELSE COMMAND_VALUE_ON>>))

set_comms_failsafe(e, state) ==
    WrapIOError(_write(e, COMMAND_SET_FAILSAFE,
                       <<IF state THEN COMMAND_VALUE_ON
                                  ELSE COMMAND_VALUE_OFF>>))

get_comms_failsafe(e) ==
    Let(WrapIOError(_read(e, COMMAND_GET_FAILSAFE, _I2C_READ_LEN)),
        LAMBDA r :
          IF r.exc # "none"
          THEN r
          ELSE IF Len(r.val) < 2
          THEN Result(r.e, "IndexError", <<>>)
          ELSE Result(r.e, "none", r.val[2] # COMMAND_VALUE_OFF))

set_led_battery_state(e, state) ==
    WrapIOError(_write(e, COMMAND_SET_LED_BATT_MON,
                       <<IF state THEN COMMAND_VALUE_ON
                                  ELSE COMMAND_VALUE_OFF>>))

\* get_led_battery_state comparing the command byte of the frame.
get_led_battery_state_WrongByte(e) ==
    Let(WrapIOError(_read(e, COMMAND_GET_LED_BATT_MON, _I2C_READ_LEN)),
        LAMBDA r :
          IF r.exc # "none"
          THEN r
          ELSE Result(r.e, "none", r.val[1] # COMMAND_VALUE_OFF))

get_led_battery_state(e) ==
    Let(WrapIOError(_read(e, COMMAND_GET_LED_BATT_MON, _I2C_READ_LEN)),
        LAMBDA r :
          IF r.exc # "none"
          THEN r
          ELSE IF Len(r.val) < 2
          THEN Result(r.e, "IndexError", <<>>)
          ELSE Result(r.e, "none", r.val[2] # COMMAND_VALUE_OFF))

\* LedLevel without the limits: int(x * _PWM_MAX).
LedLevel_Unclamped(x) == IntOfScaled(_PWM_MAX, x)

\* max(0, min(_PWM_MAX, int(x * _PWM_MAX))).
LedLevel(x) == Max(0, Min(_PWM_MAX, IntOfScaled(_PWM_MAX, x)))

\* _set_led sending the channels in the order b, g, r.
_set_led_Reversed(e, command, r, g, b) ==
    WrapIOError(_write(e, command, <<LedLevel(b), LedLevel(g), LedLevel(r)>>))

\* _set_led writing a second time when the write failed.
_set_led_Retried(e, command, r, g, b) ==
    Let(_write(e, command, <<LedLevel(r), LedLevel(g), LedLevel(b)>>),
        LAMBDA w :
          IF w.exc = "IOError"
          THEN WrapIOError(_write(w.e, command,
                                  <<LedLevel(r), LedLevel(g), LedLevel(b)>>))
          ELSE w)

_set_led(e, command, r, g, b) ==
    WrapIOError(_write(e, command, <<LedLevel(r), LedLevel(g), LedLevel(b)>>))

set_led_one(e, r, g, b) == _set_led(e, COMMAND_SET_LED1, r, g, b)

set_led_two(e, r, g, b) == _set_led(e, COMMAND_SET_LED2, r, g, b)

set_both_leds(e, r, g, b) == _set_led(e, COMMAND_SET_LEDS, r, g, b)

\* _get_led: each of recv[1], recv[2], recv[3] divided by _PWM_MAX.
_get_led(e, command) ==
    Let(WrapIOError(_read(e, command, _I2C_READ_LEN)), LAMBDA rd :
      IF rd.exc # "none"
      THEN rd
      ELSE IF Len(rd.val) < 4
      THEN Result(rd.e, "IndexError", <<>>)
      ELSE Result(rd.e, "none",
                  <<(<<rd.val[2], _PWM_MAX>>), (<<rd.val[3], _PWM_MAX>>),
                    (<<rd.val[4], _PWM_MAX>>)>>))

get_led_one(e) == _get_led(e, COMMAND_GET_LED1)

get_led_two(e) == _get_led(e, COMMAND_GET_LED2)

\* max(0, min(0xFF, int(volts / _VOLTAGE_PIN_MAX * 0xFF))).
LimitLevel(volts) == Max(0, Min(255, IntOfVolts(volts)))

\* set_battery_monitoring_limits sending the maximum first.
set_battery_monitoring_limits_Swapped(e, minimum, maximum) ==
    Let(WrapIOError(_write(e, COMMAND_SET_BATT_LIMITS,
                           <<LimitLevel(maximum), LimitLevel(minimum)>>)),
        LAMBDA w :
          IF w.exc # "none"
          THEN w
          ELSE Result(Sleep(w.e, EEPROM_TICKS), "none", <<>>))

\* set_battery_monitoring_limits without the wait for the EEPROM.
set_battery_monitoring_limits_NoWait(e, minimum, maximum) ==
    WrapIOError(_write(e, COMMAND_SET_BATT_LIMITS,
                       <<LimitLevel(minimum), LimitLevel(maximum)>>))

\* set_battery_monitoring_limits: the two levels in one frame, then, when
\* the write went through, time.sleep(0.2).
set_battery_monitoring_limits(e, minimum, maximum) ==
    Let(WrapIOError(_write(e, COMMAND_SET_BATT_LIMITS,
                           <<LimitLevel(minimum), LimitLevel(maximum)>>)),
        LAMBDA w :
          IF w.exc # "none"
          THEN w
          ELSE Result(Sleep(w.e, EEPROM_TICKS), "none", <<>>))

\* get_battery_monitoring_limits: each of recv[1], recv[2] divided by 0xFF
\* and multiplied by _VOLTAGE_PIN_MAX.
get_battery_monitoring_limits(e) ==
    Let(WrapIOError(_read(e, COMMAND_GET_BATT_LIMITS, _I2C_READ_LEN)),
        LAMBDA r :
          IF r.exc # "none"
          THEN r
          ELSE IF Len(r.val) < 3
          THEN Result(r.e, "IndexError", <<>>)
          ELSE Result(r.e, "none",
                      <<(<<r.val[2] * _VOLTAGE_PIN_MAX[1],
                           255 * _VOLTAGE_PIN_MAX[2]>>),
                        (<<r.val[3] * _VOLTAGE_PIN_MAX[1],
                           255 * _VOLTAGE_PIN_MAX[2]>>)>>))

\* _get_drive_fault: the fault flag is recv[1].
_get_drive_fault(e, command) ==
    Let(WrapIOError(_read(e, command, _I2C_READ_LEN)), LAMBDA r :
      IF r.exc # "none"
      THEN r
      ELSE IF Len(r.val) < 2
      THEN Result(r.e, "IndexError", <<>>)
      ELSE Result(r.e, "none", r.val[2] # COMMAND_VALUE_OFF))

get_drive_fault_one(e) == _get_drive_fault(e, COMMAND_GET_DRIVE_A_FAULT)

get_drive_fault_two(e) == _get_drive_fault(e, COMMAND_GET_DRIVE_B_FAULT)

\* get_battery_voltage: raw = (recv[1] << 8) + recv[2], and the level is
\* raw / COMMAND_ANALOG_MAX * _VOLTAGE_PIN_MAX + _VOLTAGE_PIN_CORRECTION.
get_battery_voltage(e) ==
    Let(WrapIOError(_read(e, COMMAND_GET_BATT_VOLT, _I2C_READ_LEN)),
        LAMBDA r :
          IF r.exc # "none"
          THEN r
          ELSE IF Len(r.val) < 3
          THEN Result(r.e, "IndexError", <<>>)
          ELSE Result(r.e, "none",
                      <<(r.val[2] * 256 + r.val[3]) * _VOLTAGE_PIN_MAX[1]
                          * _VOLTAGE_PIN_CORRECTION[2]
                          + _VOLTAGE_PIN_CORRECTION[1] * COMMAND_ANALOG_MAX
                            * _VOLTAGE_PIN_MAX[2],
                        COMMAND_ANALOG_MAX * _VOLTAGE_PIN_MAX[2]
                          * _VOLTAGE_PIN_CORRECTION[2]>>))

\* max(0, min(_PWM_MAX, int(b))).
ExternalLedByte(b) == Max(0, Min(_PWM_MAX, Trunc(b[1], b[2])))

\* write_external_led_word: the four bytes in one frame.
write_external_led_word(e, b0, b1, b2, b3) ==
    WrapIOError(_write(e, COMMAND_WRITE_EXTERNAL_LED,
                       <<ExternalLedByte(b0), ExternalLedByte(b1),
                         ExternalLedByte(b2), ExternalLedByte(b3)>>))

\* The loop of set_external_led_colors, from colour i on: the word
\* (255, 255 * b, 255 * g, 255 * r) of each colour (r, g, b).
RECURSIVE ColorLoop(_, _, _)
ColorLoop(e, colors, i) ==
    IF i > Len(colors)
    THEN Result(e, "none", <<>>)
    ELSE Let(write_external_led_word(
                 e, <<255, 1>>,
                 <<255 * colors[i][3][1], colors[i][3][2]>>,
                 <<255 * colors[i][2][1], colors[i][2][2]>>,
                 <<255 * colors[i][1][1], colors[i][1][2]>>),
             LAMBDA w :
               IF w.exc # "none"
               THEN w
               ELSE ColorLoop(w.e, colors, i + 1))

\* set_external_led_colors without the start marker.
set_external_led_colors_NoStart(e, colors) == ColorLoop(e, colors, 1)

\* set_external_led_colors: the start marker, then each colour in turn.
set_external_led_colors(e, colors) ==
    Let(write_external_led_word(e, <<0, 1>>, <<0, 1>>, <<0, 1>>, <<0, 1>>),
        LAMBDA w :
          IF w.exc # "none"
          THEN w
          ELSE ColorLoop(w.e, colors, 1))

---------------------------------------------------------------------------
(* The environments and the inputs the model runs on.                      *)

\* The most stale frames pending on the channel at once.
MaxStale == 3

\* A stale frame is the answer to an earlier command: GET_LED1 with a red
\* byte of 0x15, or GET_A with the forward value.
StaleFrames ==
    { <<COMMAND_GET_LED1, 21, 0, 0, 0, 0>>,
      <<COMMAND_GET_A, 1, 0, 0, 0, 0>> }

World(b, t, o, k) == [busses |-> b, tborgs |-> t, others |-> o, busy |-> k]

\* The bus layouts the model starts from (0x15 = 21, 0x20 = 32,
\* 0x70 = 112, 0x77 = 119).
Worlds ==
    { World({1}, {<<1, 21>>}, {}, {}),
      World({1}, {}, {}, {}),
      World({1}, {}, {<<1, 21>>}, {}),
      World({1}, {<<1, 32>>}, {}, {}),
      World({1}, {<<1, 119>>}, {}, {}),
      World({1}, {<<1, 21>>, <<1, 32>>}, {}, {}),
      World({1}, {<<1, 21>>}, {}, {<<1, 112>>}),
      World({0, 1}, {<<1, 21>>}, {}, {}),
      World({0, 1}, {<<0, 21>>}, {}, {}),
      World({0, 1}, {<<0, 32>>}, {}, {}),
      World({0}, {<<0, 21>>}, {}, {}) }

BusNums == {0, 1}
Addresses == {DEFAULT_I2C_ADDRESS, 32}
NewAddresses == {2, 3, 112, 119, 120}
CurAddresses == {-1, 21, 32}
ReadCommands == {COMMAND_GET_ID, COMMAND_GET_A}

NoOp == [name |-> "none", bus |-> -1, addr |-> -1, auto |-> FALSE,
         new |-> -1, cmd |-> -1, arg |-> <<>>]

\* The caller has set nothing yet.  how is the last speed call, halts the
\* number of halt_motors calls since another speed call (2 for more),
\* armed whether the failsafe was enabled at some time since the last
\* speed call.
NothingSent ==
    [one |-> <<>>, two |-> <<>>, how |-> "", halts |-> 0, armed |-> FALSE,
     failsafe |-> <<>>, ledmon |-> <<>>,
     led1 |-> <<>>, led2 |-> <<>>, limits |-> <<>>]

\* The caller's record after the speed call how.
Sped(how) ==
    [sent EXCEPT !.how = how, !.halts = 0,
                 !.armed = (sent.failsafe = <<TRUE>>)]

\* The callers that may use the session at the same time.
Callers == {1, 2}

\* A caller that is not in _read.  src is the caller whose write the last
\* read answered (-1 before the first read), fresh whether that answer
\* had not been read before.
NotCalling ==
    [pc |-> "idle", cmd |-> -1, i |-> 0, exc |-> "none", data |-> <<>>,
     src |-> -1, fresh |-> FALSE]

\* Nothing has been written to the board yet.
NoneAsked == [cmd |-> -1, by |-> 0, taken |-> TRUE]

\* No caller is in _read and the lock, not used, is free.
NoCalls ==
    /\ callers = [c \in Callers |-> NotCalling]
    /\ lock = [used |-> FALSE, by |-> 0]
    /\ asked = NoneAsked

Started(tb) ==
    [tb |-> tb, peer |-> peer, tborgs |-> tborgs, stale |-> stale,
     fault |-> fault, regs |-> regs, log |-> <<>>]

Idle == op.name = "none"

---------------------------------------------------------------------------
Init ==
    /\ \E w \in Worlds :
          /\ busses = w.busses
          /\ tborgs = w.tborgs
          /\ others = w.others
          /\ busy = w.busy
    /\ stale = [frame |-> <<>>, n |-> 0]
    /\ fault = NoFault
    /\ session = NoStreams
    /\ peer = NoStreams
    /\ NoCalls
    /\ regs = PowerOn
    /\ sent = NothingSent
    /\ op = NoOp
    /\ ret = [exc |-> "none", val |-> <<>>, tb |-> NoStreams]
    /\ log = <<>>

\* The effect of a call that ended as r, on everything but the session.
Ended(r) ==
    /\ tborgs' = r.e.tborgs
    /\ stale' = r.e.stale
    /\ fault' = r.e.fault
    /\ regs' = r.e.regs
    /\ log' = r.e.log
    /\ ret' = [exc |-> r.exc, val |-> r.val, tb |-> r.e.tb]
    /\ peer' = r.e.peer
    /\ UNCHANGED <<busses, others, busy, callers, lock, asked>>

\* ThunderBorg(bus_num, address, auto_set_addr=...): a new instance; the
\* caller gets it when __init__ returns.
Construct(bus_num, address, auto_set_addr) ==
    /\ Idle
    /\ \E r \in {_initialize_board(Started(NoStreams), bus_num, address,
                                    auto_set_addr)} :
          /\ Ended(r)
          /\ session' = IF r.exc = "none" THEN r.e.tb ELSE session
    /\ op' = [NoOp EXCEPT !.name = "ThunderBorg", !.bus = bus_num,
                          !.addr = address, !.auto = auto_set_addr]
    /\ UNCHANGED sent

\* ThunderBorg.find_board(bus_num), on an instance of its own.
FindBoard(bus_num) ==
    /\ Idle
    /\ \E r \in {find_board(Started(NoStreams), bus_num, TRUE)} : Ended(r)
    /\ op' = [NoOp EXCEPT !.name = "find_board", !.bus = bus_num]
    /\ UNCHANGED <<session, sent>>

\* ThunderBorg.set_i2c_address(new_addr, cur_addr, bus_num).
SetI2cAddress(new_addr, cur_addr, bus_num) ==
    /\ Idle
    /\ \E r \in {set_i2c_address(Started(NoStreams), new_addr, cur_addr,
                                  bus_num)} : Ended(r)
    /\ op' = [NoOp EXCEPT !.name = "set_i2c_address", !.bus = bus_num,
                          !.addr = cur_addr, !.new = new_addr]
    /\ UNCHANGED <<session, sent>>

\* session._read(command, 6): the exchange every get operation starts with.
Read(command) ==
    /\ Idle
    /\ session.has
    /\ \E r \in {_read(Started(session), command, _I2C_READ_LEN)} :
          /\ Ended(r)
          /\ session' = r.e.tb
    /\ op' = [NoOp EXCEPT !.name = "_read", !.cmd = command]
    /\ UNCHANGED sent

\* session.close_streams().
CloseStreams ==
    /\ Idle
    /\ \E e \in {close_streams(Started(session))} :
          /\ Ended(Result(e, "none", <<>>))
          /\ session' = e.tb
    /\ op' = [NoOp EXCEPT !.name = "close_streams"]
    /\ UNCHANGED sent

\* The channel is left with n stale frames.
Glitch(frame, n) ==
    /\ Idle
    /\ stale.n = 0
    /\ stale' = [frame |-> frame, n |-> n]
    /\ UNCHANGED <<busses, tborgs, others, busy, fault, session, peer,
                   callers, lock, asked, regs, sent, op, ret, log>>

\* The caller has taken the result of the last call.
Return ==
    /\ ~Idle
    /\ op' = NoOp
    /\ ret' = [exc |-> "none", val |-> <<>>, tb |-> NoStreams]
    /\ log' = <<>>
    /\ UNCHANGED <<busses, tborgs, others, busy, stale, fault, session,
                   peer, callers, lock, asked, regs, sent>>

Next ==
    \/ \E b \in BusNums, a \in Addresses, auto \in BOOLEAN :
          Construct(b, a, auto)
    \/ \E b \in BusNums : FindBoard(b)
    \/ \E n \in NewAddresses, c \in CurAddresses, b \in BusNums :
          SetI2cAddress(n, c, b)
    \/ \E c \in ReadCommands : Read(c)
    \/ CloseStreams
    \/ \E f \in StaleFrames, n \in 1..MaxStale : Glitch(f, n)
    \/ Return

Spec == Init /\ [][Next]_vars

---------------------------------------------------------------------------
(* The motors: a caller drives a connected instance while time passes and  *)
(* the channel now and then holds stale or corrupted frames.               *)

\* The drive levels the caller asks for: in and out of [-1, 1], with the
\* PWM value a whole number or not.
Levels ==
    { <<-3, 2>>, <<-1, 1>>, <<-1, 2>>, <<-1, 1000>>, <<0, 1>>, <<1, 2>>,
      <<999, 1000>>, <<1, 1>>, <<3, 2>> }
LevelsTwo == { <<-1, 2>>, <<0, 1>>, <<1, 1>> }
LevelsBoth == { <<1, 2>>, <<-1, 1>> }

\* A GET_A answer whose direction byte was corrupted, and an answer to
\* GET_B left on the channel.
DriveStaleFrames ==
    { <<COMMAND_GET_A, 3, 128, 0, 0, 0>>,
      <<COMMAND_GET_B, COMMAND_VALUE_REV, 64, 0, 0, 0>> }

\* The instance ThunderBorg() gives on a bus 1 with one board at 0x15.
Connected ==
    [has |-> TRUE, open |-> TRUE, bus |-> DEFAULT_BUS_NUM,
     addr |-> DEFAULT_I2C_ADDRESS]

ConnectedInit ==
    /\ busses = {DEFAULT_BUS_NUM}
    /\ tborgs = {<<DEFAULT_BUS_NUM, DEFAULT_I2C_ADDRESS>>}
    /\ others = {}
    /\ busy = {}
    /\ stale = [frame |-> <<>>, n |-> 0]
    /\ fault = NoFault
    /\ session = Connected
    /\ peer = NoStreams
    /\ NoCalls
    /\ regs = PowerOn
    /\ sent = NothingSent
    /\ op = NoOp
    /\ ret = [exc |-> "none", val |-> <<>>, tb |-> NoStreams]
    /\ log = <<>>

\* A call on the session that ended as r, named name with argument arg;
\* done is what the caller knows it has set when the call returned.
Called(name, command, arg, r, done) ==
    /\ Ended(r)
    /\ session' = r.e.tb
    /\ sent' = IF r.exc = "none" THEN done ELSE sent
    /\ op' = [NoOp EXCEPT !.name = name, !.cmd = command, !.arg = arg]

SetMotorOne(level) ==
    /\ Idle
    /\ \E r \in {set_motor_one(Started(session), level)} :
          Called("set_motor_one", -1, level, r,
                 [Sped("set_motor_one") EXCEPT !.one = level])

SetMotorTwo(level) ==
    /\ Idle
    /\ \E r \in {set_motor_two(Started(session), level)} :
          Called("set_motor_two", -1, level, r,
                 [Sped("set_motor_two") EXCEPT !.two = level])

SetBothMotors(level) ==
    /\ Idle
    /\ \E r \in {set_both_motors(Started(session), level)} :
          Called("set_both_motors", -1, level, r,
                 [Sped("set_both_motors") EXCEPT !.one = level,
                                                 !.two = level])

GetMotorOne ==
    /\ Idle
    /\ \E r \in {get_motor_one(Started(session))} :
          Called("get_motor_one", COMMAND_GET_A, <<>>, r, sent)

GetMotorTwo ==
    /\ Idle
    /\ \E r \in {get_motor_two(Started(session))} :
          Called("get_motor_two", COMMAND_GET_B, <<>>, r, sent)

HaltMotors ==
    /\ Idle
    /\ \E r \in {halt_motors(Started(session))} :
          Called("halt_motors", -1, <<>>, r,
                 [Sped("halt_motors") EXCEPT
                    !.one = <<0, 1>>, !.two = <<0, 1>>,
                    !.halts = Min(sent.halts + 1, 2)])

SetCommsFailsafe(state) ==
    /\ Idle
    /\ \E r \in {set_comms_failsafe(Started(session), state)} :
          Called("set_comms_failsafe", -1, <<state>>, r,
                 [sent EXCEPT !.failsafe = <<state>>,
                              !.armed = @ \/ state])

\* One tick of time passes between two calls.
Tick ==
    /\ Idle
    /\ regs.quiet <= FAILSAFE_TICKS
    /\ regs' = Elapse(regs, 1)
    /\ UNCHANGED <<busses, tborgs, others, busy, stale, fault, session,
                   peer, callers, lock, asked, sent, op, ret, log>>

DriveNext ==
    \/ \E l \in Levels : SetMotorOne(l)
    \/ \E l \in LevelsTwo : SetMotorTwo(l)
    \/ \E l \in LevelsBoth : SetBothMotors(l)
    \/ GetMotorOne
    \/ GetMotorTwo
    \/ HaltMotors
    \/ \E st \in BOOLEAN : SetCommsFailsafe(st)
    \/ Tick
    \/ \E f \in DriveStaleFrames, n \in 1..MaxStale : Glitch(f, n)
    \/ CloseStreams
    \/ Return

DriveSpec == ConnectedInit /\ [][DriveNext]_vars

---------------------------------------------------------------------------
(* The settings: a caller sets and reads the LEDs, the two boolean         *)
(* settings and the battery limits of a connected instance.                *)

\* Colours (r, g, b): the four of the docstrings and one with channels
\* outside [0, 1].
Colors ==
    { <<(<<0, 1>>), (<<0, 1>>), (<<0, 1>>)>>,
      <<(<<1, 1>>), (<<1, 1>>), (<<1, 1>>)>>,
      <<(<<1, 1>>), (<<1, 2>>), (<<0, 1>>)>>,
      <<(<<1, 5>>), (<<0, 1>>), (<<1, 5>>)>>,
      <<(<<3, 2>>), (<<-1, 2>>), (<<999, 1000>>)>> }
ColorsTwo ==
    { <<(<<0, 1>>), (<<0, 1>>), (<<0, 1>>)>>,
      <<(<<1, 1>>), (<<1, 2>>), (<<0, 1>>)>> }
ColorsBoth == { <<(<<1, 5>>), (<<0, 1>>), (<<1, 5>>)>> }

\* Battery limits (minimum, maximum) in volts: 12.0 and 16.8, the whole
\* range, the range upside down, and limits outside the range.
Limits ==
    { <<(<<12, 1>>), (<<168, 10>>)>>,
      <<(<<0, 1>>), (<<363, 10>>)>>,
      <<(<<363, 10>>), (<<1, 10>>)>>,
      <<(<<-1, 1>>), (<<40, 1>>)>> }

\* Answers to GET_LED1 and to GET_BATT_LIMITS left on the channel.
SettingsStaleFrames ==
    { <<COMMAND_GET_LED1, 9, 8, 7, 0, 0>>,
      <<COMMAND_GET_BATT_LIMITS, 1, 2, 0, 0, 0>> }

SetLedOne(c) ==
    /\ Idle
    /\ \E r \in {set_led_one(Started(session), c[1], c[2], c[3])} :
          Called("set_led_one", -1, c, r, [sent EXCEPT !.led1 = c])

SetLedTwo(c) ==
    /\ Idle
    /\ \E r \in {set_led_two(Started(session), c[1], c[2], c[3])} :
          Called("set_led_two", -1, c, r, [sent EXCEPT !.led2 = c])

SetBothLeds(c) ==
    /\ Idle
    /\ \E r \in {set_both_leds(Started(session), c[1], c[2], c[3])} :
          Called("set_both_leds", -1, c, r,
                 [sent EXCEPT !.led1 = c, !.led2 = c])

GetLedOne ==
    /\ Idle
    /\ \E r \in {get_led_one(Started(session))} :
          Called("get_led_one", COMMAND_GET_LED1, <<>>, r, sent)

GetLedTwo ==
    /\ Idle
    /\ \E r \in {get_led_two(Started(session))} :
          Called("get_led_two", COMMAND_GET_LED2, <<>>, r, sent)

SetLedBatteryState(state) ==
    /\ Idle
    /\ \E r \in {set_led_battery_state(Started(session), state)} :
          Called("set_led_battery_state", -1, <<state>>, r,
                 [sent EXCEPT !.ledmon = <<state>>])

GetLedBatteryState ==
    /\ Idle
    /\ \E r \in {get_led_battery_state(Started(session))} :
          Called("get_led_battery_state", COMMAND_GET_LED_BATT_MON, <<>>, r,
                 sent)

GetCommsFailsafe ==
    /\ Idle
    /\ \E r \in {get_comms_failsafe(Started(session))} :
          Called("get_comms_failsafe", COMMAND_GET_FAILSAFE, <<>>, r, sent)

SetBatteryMonitoringLimits(minimum, maximum) ==
    /\ Idle
    /\ \E r \in {set_battery_monitoring_limits(Started(session), minimum,
                                                maximum)} :
          Called("set_battery_monitoring_limits", -1, <<minimum, maximum>>,
                 r, [sent EXCEPT !.limits = <<minimum, maximum>>])

GetBatteryMonitoringLimits ==
    /\ Idle
    /\ \E r \in {get_battery_monitoring_limits(Started(session))} :
          Called("get_battery_monitoring_limits", COMMAND_GET_BATT_LIMITS,
                 <<>>, r, sent)

SettingsNext ==
    \/ \E c \in Colors : SetLedOne(c)
    \/ \E c \in ColorsTwo : SetLedTwo(c)
    \/ \E c \in ColorsBoth : SetBothLeds(c)
    \/ GetLedOne
    \/ GetLedTwo
    \/ \E st \in BOOLEAN : SetLedBatteryState(st)
    \/ GetLedBatteryState
    \/ \E st \in BOOLEAN : SetCommsFailsafe(st)
    \/ GetCommsFailsafe
    \/ \E l \in Limits : SetBatteryMonitoringLimits(l[1], l[2])
    \/ GetBatteryMonitoringLimits
    \/ \E f \in SettingsStaleFrames, n \in 1..MaxStale : Glitch(f, n)
    \/ CloseStreams
    \/ Return

SettingsSpec == ConnectedInit /\ [][SettingsNext]_vars

---------------------------------------------------------------------------
(* The frames: a caller uses every command of a connected instance, with   *)
(* arguments in and out of the documented ranges, writes to the external   *)
(* LED chain, and moves the board to another address and back.             *)

\* Lists of colours (r, g, b) for the external LEDs: none, the two lists
\* of the docstring, and one colour with channels outside [0, 1].
ColorLists ==
    { <<>>,
      << <<(<<1, 1>>), (<<1, 1>>), (<<0, 1>>)>> >>,
      << <<(<<1, 1>>), (<<0, 1>>), (<<0, 1>>)>>,
         <<(<<1, 2>>), (<<0, 1>>), (<<0, 1>>)>>,
         <<(<<0, 1>>), (<<0, 1>>), (<<0, 1>>)>> >>,
      << <<(<<3, 2>>), (<<-1, 2>>), (<<999, 1000>>)>> >> }

\* Words (b0, b1, b2, b3) for the external LEDs: the one of the docstring,
\* and one with bytes outside 0 .. 255 and a byte that is no whole number.
Words ==
    { <<(<<255, 1>>), (<<64, 1>>), (<<1, 1>>), (<<0, 1>>)>>,
      <<(<<256, 1>>), (<<-1, 1>>), (<<1000, 1>>), (<<255, 2>>)>> }

\* Arguments outside the documented ranges, on both sides.
FrameLevels == { <<-3, 2>>, <<3, 2>> }
FrameLevelsTwo == { <<-1001, 1000>> }
FrameLevelsBoth == { <<1, 2>> }
FrameColors == { <<(<<3, 2>>), (<<-1, 2>>), (<<999, 1000>>)>> }
FrameLimits == { <<(<<-1, 1>>), (<<40, 1>>)>> }
FrameAddresses == { DEFAULT_I2C_ADDRESS, 112 }

SetExternalLedColors(colors) ==
    /\ Idle
    /\ \E r \in {set_external_led_colors(Started(session), colors)} :
          Called("set_external_led_colors", -1, colors, r, sent)

WriteExternalLedWord(w) ==
    /\ Idle
    /\ \E r \in {write_external_led_word(Started(session), w[1], w[2], w[3],
                                          w[4])} :
          Called("write_external_led_word", -1, w, r, sent)

GetDriveFaultOne ==
    /\ Idle
    /\ \E r \in {get_drive_fault_one(Started(session))} :
          Called("get_drive_fault_one", COMMAND_GET_DRIVE_A_FAULT, <<>>, r,
                 sent)

GetDriveFaultTwo ==
    /\ Idle
    /\ \E r \in {get_drive_fault_two(Started(session))} :
          Called("get_drive_fault_two", COMMAND_GET_DRIVE_B_FAULT, <<>>, r,
                 sent)

GetBatteryVoltage ==
    /\ Idle
    /\ \E r \in {get_battery_voltage(Started(session))} :
          Called("get_battery_voltage", COMMAND_GET_BATT_VOLT, <<>>, r, sent)

FrameNext ==
    \/ \E l \in ColorLists : SetExternalLedColors(l)
    \/ \E w \in Words : WriteExternalLedWord(w)
    \/ \E l \in FrameLevels : SetMotorOne(l)
    \/ \E l \in FrameLevelsTwo : SetMotorTwo(l)
    \/ \E l \in FrameLevelsBoth : SetBothMotors(l)
    \/ GetMotorOne
    \/ GetMotorTwo
    \/ HaltMotors
    \/ \E st \in BOOLEAN : SetCommsFailsafe(st)
    \/ GetCommsFailsafe
    \/ \E c \in FrameColors : SetLedOne(c)
    \/ \E c \in FrameColors : SetLedTwo(c)
    \/ \E c \in FrameColors : SetBothLeds(c)
    \/ GetLedOne
    \/ GetLedTwo
    \/ \E st \in BOOLEAN : SetLedBatteryState(st)
    \/ GetLedBatteryState
    \/ \E l \in FrameLimits : SetBatteryMonitoringLimits(l[1], l[2])
    \/ GetBatteryMonitoringLimits
    \/ GetDriveFaultOne
    \/ GetDriveFaultTwo
    \/ GetBatteryVoltage
    \/ \E n \in FrameAddresses, c \in FrameAddresses :
          SetI2cAddress(n, c, DEFAULT_BUS_NUM)
    \/ CloseStreams
    \/ Return

FrameSpec == ConnectedInit /\ [][FrameNext]_vars

---------------------------------------------------------------------------
(* The failures: the caller starts with an instance that has no streams    *)
(* (static_init=True), constructs instances, uses and closes them, while   *)
(* transfers fail, the user interrupts, and reads come back empty or       *)
(* short.                                                                  *)

\* The latest transfer, counted from the disturbance, that can fail.
MaxAt == 3

\* What a failing transfer raises: the I2C driver's error, or the user's
\* interruption.
FaultKinds == { "IOError", "KeyboardInterrupt" }

\* What a read returns when it is disturbed: nothing, the echo of GET_A
\* alone, or the answer to another command.
FaultStaleFrames ==
    { <<>>,
      <<COMMAND_GET_A>>,
      <<COMMAND_GET_LED1, 9, 8, 7, 0, 0>> }

FaultLevel == <<1, 2>>
FaultColor == <<(<<1, 5>>), (<<0, 1>>), (<<1, 5>>)>>
FaultLimits == <<(<<12, 1>>), (<<168, 10>>)>>
FaultWord == <<(<<255, 1>>), (<<64, 1>>), (<<1, 1>>), (<<0, 1>>)>>
FaultColorList ==
    << <<(<<1, 1>>), (<<0, 1>>), (<<0, 1>>)>>,
       <<(<<1, 2>>), (<<0, 1>>), (<<0, 1>>)>> >>

\* One board at the default address of bus 1; the caller holds an instance
\* made with static_init=True.
FaultInit ==
    /\ busses = {DEFAULT_BUS_NUM}
    /\ tborgs = {<<DEFAULT_BUS_NUM, DEFAULT_I2C_ADDRESS>>}
    /\ others = {}
    /\ busy = {}
    /\ stale = [frame |-> <<>>, n |-> 0]
    /\ fault = NoFault
    /\ session = NoStreams
    /\ peer = NoStreams
    /\ NoCalls
    /\ regs = PowerOn
    /\ sent = NothingSent
    /\ op = NoOp
    /\ ret = [exc |-> "none", val |-> <<>>, tb |-> NoStreams]
    /\ log = <<>>

\* The at-th transfer from now on will raise kind.
Disturb(kind, at) ==
    /\ Idle
    /\ fault.at = 0
    /\ fault' = [kind |-> kind, at |-> at]
    /\ UNCHANGED <<busses, tborgs, others, busy, stale, session, peer,
                   callers, lock, asked, regs, sent, op, ret, log>>

FaultNext ==
    \/ \E auto \in BOOLEAN :
          Construct(DEFAULT_BUS_NUM, DEFAULT_I2C_ADDRESS, auto)
    \/ FindBoard(DEFAULT_BUS_NUM)
    \/ \E c \in {-1, DEFAULT_I2C_ADDRESS} :
          SetI2cAddress(DEFAULT_I2C_ADDRESS, c, DEFAULT_BUS_NUM)
    \/ SetMotorOne(FaultLevel)
    \/ GetMotorOne
    \/ GetMotorTwo
    \/ HaltMotors
    \/ SetLedOne(FaultColor)
    \/ GetLedOne
    \/ GetLedTwo
    \/ SetLedBatteryState(TRUE)
    \/ GetLedBatteryState
    \/ GetCommsFailsafe
    \/ GetDriveFaultOne
    \/ GetDriveFaultTwo
    \/ GetBatteryVoltage
    \/ SetBatteryMonitoringLimits(FaultLimits[1], FaultLimits[2])
    \/ GetBatteryMonitoringLimits
    \/ WriteExternalLedWord(FaultWord)
    \/ SetExternalLedColors(FaultColorList)
    \/ CloseStreams
    \/ \E f \in FaultStaleFrames, n \in 1..MaxStale : Glitch(f, n)
    \/ \E k \in FaultKinds, at \in 1..MaxAt : Disturb(k, at)
    \/ Return

FaultSpec == FaultInit /\ [][FaultNext]_vars

---------------------------------------------------------------------------
(* The streams: instances are constructed and addresses set where a bus    *)
(* is missing, an address is claimed by a driver, no board answers or the  *)
(* new address is taken.                                                   *)

\* Bus layouts (0x15 = 21, 0x70 = 112): bus 0 missing; the default address
\* of bus 1 claimed, the board on bus 0; no board on two busses; no board
\* and bus 0 missing; another board at 0x70; 0x70 claimed; the default
\* address claimed and the board at 0x20.
StreamWorlds ==
    { World({1}, {<<1, 21>>}, {}, {}),
      World({0, 1}, {<<0, 21>>}, {}, {<<1, 21>>}),
      World({0, 1}, {}, {}, {}),
      World({1}, {}, {}, {}),
      World({1}, {<<1, 21>>}, {<<1, 112>>}, {}),
      World({1}, {<<1, 21>>}, {}, {<<1, 112>>}),
      World({1}, {<<1, 32>>}, {}, {<<1, 21>>}) }

StreamInit ==
    /\ \E w \in StreamWorlds :
          /\ busses = w.busses
          /\ tborgs = w.tborgs
          /\ others = w.others
          /\ busy = w.busy
    /\ stale = [frame |-> <<>>, n |-> 0]
    /\ fault = NoFault
    /\ session = NoStreams
    /\ peer = NoStreams
    /\ NoCalls
    /\ regs = PowerOn
    /\ sent = NothingSent
    /\ op = NoOp
    /\ ret = [exc |-> "none", val |-> <<>>, tb |-> NoStreams]
    /\ log = <<>>

\* The latest transfer whose read can come back garbled: the read at the
\* new address is the fifth transfer of set_i2c_address.
MaxGarbled == 5

\* The bus numbers asked of the constructor: the two candidates and one
\* that is not a candidate.
StreamBusNums == {0, 1, 2}

StreamNext ==
    \/ \E b \in StreamBusNums, auto \in BOOLEAN :
          Construct(b, DEFAULT_I2C_ADDRESS, auto)
    \/ \E at \in 1..MaxGarbled : Disturb("garbled", at)
    \/ \E c \in {-1, DEFAULT_I2C_ADDRESS}, b \in BusNums :
          SetI2cAddress(112, c, b)
    \/ CloseStreams
    \/ \E f \in StaleFrames, n \in 1..MaxStale : Glitch(f, n)
    \/ Return

StreamSpec == StreamInit /\ [][StreamNext]_vars

---------------------------------------------------------------------------
(* Two instances: the caller holds two ThunderBorg instances, on the same *)
(* board or on two boards of one bus, uses one or the other, and calls     *)
(* the class methods, which make an instance of their own.                 *)

PairAddresses == {DEFAULT_I2C_ADDRESS, 32}
PairLevel == <<1, 2>>

PairInit ==
    /\ busses = {DEFAULT_BUS_NUM}
    /\ tborgs = {<<DEFAULT_BUS_NUM, a>> : a \in PairAddresses}
    /\ others = {}
    /\ busy = {}
    /\ stale = [frame |-> <<>>, n |-> 0]
    /\ fault = NoFault
    /\ session = NoStreams
    /\ peer = NoStreams
    /\ NoCalls
    /\ regs = PowerOn
    /\ sent = NothingSent
    /\ op = NoOp
    /\ ret = [exc |-> "none", val |-> <<>>, tb |-> NoStreams]
    /\ log = <<>>

\* The caller turns to its other instance.
Swap ==
    /\ Idle
    /\ session' = peer
    /\ peer' = session
    /\ UNCHANGED <<busses, tborgs, others, busy, stale, fault, callers,
                   lock, asked, regs, sent, op, ret, log>>

PairNext ==
    \/ \E a \in PairAddresses, auto \in BOOLEAN :
          Construct(DEFAULT_BUS_NUM, a, auto)
    \/ Swap
    \/ SetMotorOne(PairLevel)
    \/ GetMotorOne
    \/ HaltMotors
    \/ CloseStreams
    \/ FindBoard(DEFAULT_BUS_NUM)
    \/ \E c \in {-1, DEFAULT_I2C_ADDRESS} :
          SetI2cAddress(112, c, DEFAULT_BUS_NUM)
    \/ Return

PairSpec == PairInit /\ [][PairNext]_vars

---------------------------------------------------------------------------
(* Concurrent callers: two callers run _read on one connected session,     *)
(* one write or one read of the stream at a time.  They hold a lock for    *)
(* the whole call, or they use none.  The board answers a read with the    *)
(* response to the last command written to it.                             *)

RaceCommands == {COMMAND_GET_A, COMMAND_GET_B, COMMAND_GET_LED1}

RaceInit ==
    /\ busses = {DEFAULT_BUS_NUM}
    /\ tborgs = {<<DEFAULT_BUS_NUM, DEFAULT_I2C_ADDRESS>>}
    /\ others = {}
    /\ busy = {}
    /\ stale = [frame |-> <<>>, n |-> 0]
    /\ fault = NoFault
    /\ session = Connected
    /\ peer = NoStreams
    /\ callers = [c \in Callers |-> NotCalling]
    /\ \E used \in BOOLEAN : lock = [used |-> used, by |-> 0]
    /\ asked = NoneAsked
    /\ regs = PowerOn
    /\ sent = NothingSent
    /\ op = NoOp
    /\ ret = [exc |-> "none", val |-> <<>>, tb |-> NoStreams]
    /\ log = <<>>

\* The board after a write without the command kept for the next read.
Posted_Lost(a, command, c) == a

\* The board after caller c wrote command: the next read is answered with
\* the response to it.
Posted(a, command, c) == [cmd |-> command, by |-> c, taken |-> FALSE]

\* Caller c calls _read(command, 6): for i in range(retry_count).
ReadEnter(c, command) ==
    /\ callers[c].pc = "idle"
    /\ lock.used => lock.by = 0
    /\ callers' = [callers EXCEPT ![c] = [NotCalling EXCEPT !.pc = "write",
                                                            !.cmd = command]]
    /\ lock' = IF lock.used THEN [lock EXCEPT !.by = c] ELSE lock
    /\ UNCHANGED <<busses, tborgs, others, busy, stale, fault, session, peer,
                   asked, regs, sent, op, ret, log>>

\* self._write(command, []) of caller c.
ReadWrite(c) ==
    /\ callers[c].pc = "write"
    /\ \E w \in {_write(Started(session), callers[c].cmd, <<>>)} :
          /\ callers' = [callers EXCEPT ![c] =
                           IF w.exc # "none"
                           THEN [@ EXCEPT !.pc = "done", !.exc = w.exc]
                           ELSE [@ EXCEPT !.pc = "read"]]
          /\ asked' = IF w.exc # "none" THEN asked
                      ELSE Posted(asked, callers[c].cmd, c)
          /\ tborgs' = w.e.tborgs
          /\ regs' = w.e.regs
          /\ fault' = w.e.fault
    /\ UNCHANGED <<busses, others, busy, stale, session, peer, lock, sent,
                   op, ret, log>>

\* recv = self._i2c_read.read(length) of caller c, and the test of the
\* echo: break, or the next iteration while there is one.
ReadRead(c) ==
    /\ callers[c].pc = "read"
    /\ \E r \in {StreamRead(Started(session), asked.cmd)} :
          /\ callers' = [callers EXCEPT ![c] =
                           IF r.exc # "none"
                           THEN [@ EXCEPT !.pc = "done", !.exc = r.exc]
                           ELSE [@ EXCEPT
                                   !.data = r.val,
                                   !.src = asked.by,
                                   !.fresh = ~asked.taken,
                                   !.i = @ + 1,
                                   !.pc = IF \/ callers[c].cmd = r.val[1]
                                             \/ callers[c].i + 1
                                                   >= RETRY_COUNT
                                          THEN "done" ELSE "write"]]
          /\ asked' = [asked EXCEPT !.taken = TRUE]
          /\ stale' = r.e.stale
          /\ fault' = r.e.fault
    /\ UNCHANGED <<busses, tborgs, others, busy, session, peer, lock, regs,
                   sent, op, ret, log>>

\* _read of caller c returns data (or raises).
ReadLeave(c) ==
    /\ callers[c].pc = "done"
    /\ callers' = [callers EXCEPT ![c] = NotCalling]
    /\ lock' = IF lock.used THEN [lock EXCEPT !.by = 0] ELSE lock
    /\ UNCHANGED <<busses, tborgs, others, busy, stale, fault, session, peer,
                   asked, regs, sent, op, ret, log>>

RaceNext ==
    \/ \E c \in Callers, command \in RaceCommands : ReadEnter(c, command)
    \/ \E c \in Callers : ReadWrite(c)
    \/ \E c \in Callers : ReadRead(c)
    \/ \E c \in Callers : ReadLeave(c)

RaceSpec == RaceInit /\ [][RaceNext]_vars

---------------------------------------------------------------------------
(* The set operations: every operation that sets something on the board    *)
(* is called on a connected instance, while its write may fail or be       *)
(* interrupted and the streams may have been closed.                       *)

SetLevel == <<-1, 2>>
SetColor == <<(<<1, 5>>), (<<0, 1>>), (<<1, 1>>)>>
SetLimits == <<(<<12, 1>>), (<<168, 10>>)>>
SetWord == <<(<<255, 1>>), (<<64, 1>>), (<<1, 1>>), (<<0, 1>>)>>

SetNext ==
    \/ SetMotorOne(SetLevel)
    \/ SetMotorTwo(SetLevel)
    \/ SetBothMotors(SetLevel)
    \/ HaltMotors
    \/ SetLedOne(SetColor)
    \/ SetLedTwo(SetColor)
    \/ SetBothLeds(SetColor)
    \/ SetLedBatteryState(TRUE)
    \/ SetCommsFailsafe(TRUE)
    \/ SetBatteryMonitoringLimits(SetLimits[1], SetLimits[2])
    \/ WriteExternalLedWord(SetWord)
    \/ CloseStreams
    \/ \E k \in FaultKinds : Disturb(k, 1)
    \/ Return

SetSpec == ConnectedInit /\ [][SetNext]_vars
---------------------------------------------------------------------------
(* Properties.  The events of the last call are in log, its arguments in   *)
(* op and its outcome in ret.                                              *)

EventsOf(kind) == { i \in 1..Len(log) : log[i].ev = kind }

\* The frame of read event i starts with the command the call asked for.
Echoes(i) == log[i].frame[1] = op.cmd

\* C1: a _read whose 3 attempts all returned a frame whose first byte
\* differs from the command ends in ThunderBorgException and hands no frame
\* to the caller.
C1_ExhaustedReadRaises ==
    ( /\ op.name = "_read"
      /\ Cardinality(EventsOf("read")) = RETRY_COUNT
      /\ \A i \in EventsOf("read") : ~Echoes(i) )
    => /\ ret.exc = "ThunderBorgException"
       /\ ret.val = <<>>

\* C2: _read alternates a write of [command] and a read of 6 bytes, retries
\* after every frame that does not echo the command, stops at the first
\* attempt k <= 3 whose frame echoes it, having made k writes and k reads,
\* and returns the frame of attempt k.
C2_ReadStopsAtFirstEcho ==
    op.name = "_read" =>
      /\ Len(log) <= 2 * RETRY_COUNT
      /\ \A i \in 1..Len(log) :
            IF i % 2 = 1
            THEN /\ log[i].ev = "write"
                 /\ log[i].frame = <<op.cmd>>
                 /\ ~log[i].ok => i = Len(log)
            ELSE /\ log[i].ev = "read"
                 /\ Len(log[i].frame) = _I2C_READ_LEN
                 /\ Echoes(i) => i = Len(log)
                 /\ (~Echoes(i) /\ i < 2 * RETRY_COUNT) => Len(log) > i
      /\ \A k \in 1..RETRY_COUNT :
            (Len(log) = 2 * k /\ Echoes(2 * k)) =>
               /\ ret.exc = "none"
               /\ ret.val = log[2 * k].frame
               /\ Cardinality(EventsOf("write")) = k
               /\ Cardinality(EventsOf("read")) = k

\* Two attempts returned a stale frame and the third echoed the command.
C2_Witness ==
    /\ op.name = "_read"
    /\ Len(log) = 2 * RETRY_COUNT
    /\ ~Echoes(2) /\ ~Echoes(4) /\ Echoes(6)
    /\ ret.exc = "none"
    /\ ret.val = log[6].frame

---------------------------------------------------------------------------
(* The constructor.                                                        *)

\* A frame that identifies a ThunderBorg: 6 bytes, the second 0x15.
IsThunderBorgFrame(f) == Len(f) = 6 /\ f[2] = 21

ReadsAt(b, a) ==
    { i \in EventsOf("read") : log[i].bus = b /\ log[i].addr = a }

\* The last frame read on the channel of bus b bound to address a
\* identifies a ThunderBorg.
ProbeFound(b, a) ==
    \E i \in ReadsAt(b, a) :
       /\ \A j \in ReadsAt(b, a) : j <= i
       /\ IsThunderBorgFrame(log[i].frame)

\* The channels the call tried to open, in order, as <<bus, address>>.
Opened ==
    LET IsOpen(x) == x.ev = "open"
        opens == SelectSeq(log, IsOpen)
    IN  [i \in 1..Len(opens) |-> <<opens[i].bus, opens[i].addr>>]

\* The requested bus followed by the other busses of [0, 1].
BusOrder(b) ==
    IF b = 0 THEN <<0, 1>> ELSE IF b = 1 THEN <<1, 0>> ELSE <<b, 0, 1>>

Constructed(auto) == op.name = "ThunderBorg" /\ op.auto = auto

\* C3 as claimed: without auto_set_addr the constructor succeeds only if
\* a probe returned the identifier 0x15, and raises whenever the probe of
\* the requested bus and address did not.
C3_RequestedProbeDecides ==
    Constructed(FALSE) =>
      /\ ret.exc = "none" => \E b \in {0, 1, op.bus} : ProbeFound(b, op.addr)
      /\ ~ProbeFound(op.bus, op.addr) => ret.exc = "ThunderBorgException"

\* C3, amended: without auto_set_addr the constructor succeeds only if a
\* probe of the requested address, on the requested bus or on another bus
\* of [0, 1], returned a 6-byte frame whose second byte is 0x15; if on none
\* of these busses the requested address answered with that identifier, it
\* raises ThunderBorgException.
C3_SomeBusProbeDecides ==
    Constructed(FALSE) =>
      /\ ret.exc \in {"none", "ThunderBorgException"}
      /\ ret.exc = "none" => \E b \in {0, 1, op.bus} : ProbeFound(b, op.addr)
      /\ (\A b \in {0, 1, op.bus} : ~ProbeFound(b, op.addr))
            => ret.exc = "ThunderBorgException"
      /\ \A i \in EventsOf("read") : log[i].addr = op.addr

\* The board at the requested address reported another identifier, and the
\* constructor raised.
C3_Witness ==
    /\ Constructed(FALSE)
    /\ ret.exc = "ThunderBorgException"
    /\ \E i \in ReadsAt(op.bus, op.addr) :
          log[i].frame[1] = COMMAND_GET_ID /\ log[i].frame[2] # 21

\* C4 as claimed: without auto_set_addr, a constructor that reports the
\* board as not found has opened no channel and sent no probe on a bus
\* other than the requested one.
C4_NoOtherBusTried ==
    (Constructed(FALSE) /\ ret.exc = "ThunderBorgException") =>
       \A i \in 1..Len(log) : log[i].bus = op.bus

\* C4, amended: without auto_set_addr, a constructor that reports the
\* board as not found has tried to open, in order, the requested bus and
\* then every other bus of [0, 1], each at the requested address, has
\* written a GET_ID probe on each channel it could open, and has tried no
\* other bus or address.
C4_FallbackBussesTried ==
    (Constructed(FALSE) /\ ret.exc = "ThunderBorgException") =>
       /\ Opened = [i \in 1..Len(BusOrder(op.bus)) |->
                       <<BusOrder(op.bus)[i], op.addr>>]
       /\ \A i \in EventsOf("write") :
             /\ log[i].frame = <<COMMAND_GET_ID>>
             /\ log[i].addr = op.addr
       /\ \A i \in EventsOf("open") :
             (log[i].ok /\ (i = Len(log) \/ log[i + 1].ev # "bind")) =>
                /\ i < Len(log)
                /\ log[i + 1].ev = "write"
                /\ log[i + 1].bus = log[i].bus

\* The board was reported as not found after a probe was written on a bus
\* other than the requested one.
C4_Witness ==
    /\ Constructed(FALSE)
    /\ ret.exc = "ThunderBorgException"
    /\ \E i \in EventsOf("write") : log[i].bus # op.bus

\* C5: with auto_set_addr, when the probe of the requested address fails
\* and a ThunderBorg is at another address of the requested bus, the
\* constructor succeeds with its streams bound to the lowest such address
\* on the requested bus.
C5_AutoBindsFirstBoardOfRequestedBus ==
    LET elsewhere == { a \in ADDR_MIN..ADDR_MAX :
                         <<op.bus, a>> \in tborgs /\ a # op.addr }
    IN  ( /\ Constructed(TRUE)
          /\ Len(Opened) > 1
          /\ <<op.bus, op.addr>> \notin tborgs
          /\ elsewhere # {} )
        => /\ ret.exc = "none"
           /\ ret.tb.open
           /\ ret.tb.bus = op.bus
           /\ ret.tb.addr \in elsewhere
           /\ \A a \in elsewhere : ret.tb.addr <= a

---------------------------------------------------------------------------
(* The locator: find_board and set_i2c_address.                            *)

\* The addresses 0x03 .. 0x77 (3 .. 119) in ascending order.
AddressRange == [i \in 1..117 |-> i + 2]

\* C6: find_board(bus) probes every address from 0x03 to 0x77 once, in
\* ascending order, and returns exactly the addresses whose probe answered
\* with the identifier 0x15.
C6_ScansWholeRange ==
    op.name = "find_board" =>
      LET Hit(a) == ProbeFound(op.bus, a) IN
      /\ Opened = [i \in 1..Len(AddressRange) |-> <<op.bus, AddressRange[i]>>]
      /\ ret.val = SelectSeq(AddressRange, Hit)

SetCalled == op.name = "set_i2c_address"

\* The SET_I2C_ADD frames written by the call.
AddressWrites ==
    { i \in EventsOf("write") : log[i].frame[1] = COMMAND_SET_I2C_ADD }

\* The address set_i2c_address takes for the board's current one: the one
\* given, or the first one its scan of the bus found (the scan ends with
\* the first close).
ScanHit(a) ==
    \E i \in EventsOf("read") :
       /\ log[i].addr = a
       /\ IsThunderBorgFrame(log[i].frame)
       /\ log[i + 1].ev \in {"open", "close"}
       /\ \A j \in EventsOf("close") : i < j
CurrentAddress ==
    IF op.addr >= 0
    THEN op.addr
    ELSE IF \E a \in ADDR_MIN..ADDR_MAX : ScanHit(a)
    THEN CHOOSE a \in ADDR_MIN..ADDR_MAX :
            ScanHit(a) /\ \A b \in ADDR_MIN..ADDR_MAX : ScanHit(b) => a <= b
    ELSE -1

\* C7: after set_i2c_address returned for an accepted new address (here:
\* having written SET_I2C_ADD and seen the board answer at the new address,
\* with no stale frame left pending), a find_board on the same bus reports
\* the new address and no longer the old one.
C7_FindBoardSeesMove ==
    ( /\ SetCalled
      /\ ret.exc = "none"
      /\ AddressWrites # {}
      /\ ProbeFound(op.bus, op.new)
      /\ stale.n = 0 ) =>
       \A f \in {find_board(Started(NoStreams), op.bus, TRUE).val} :
          /\ \E i \in 1..Len(f) : f[i] = op.new
          /\ CurrentAddress # op.new =>
                \A i \in 1..Len(f) : f[i] # CurrentAddress

\* C8: set_i2c_address with a new address outside 0x03..0x77 raises
\* ThunderBorgException before any channel is opened or frame written, and
\* no board changes its address.
C8_RangeCheckedFirst ==
    [][ ( /\ op.name = "none"
          /\ op'.name = "set_i2c_address"
          /\ ~(3 <= op'.new /\ op'.new <= 119) )
        => /\ ret'.exc = "ThunderBorgException"
           /\ log' = <<>>
           /\ tborgs' = tborgs ]_vars

\* A call with the new address 0x78 was rejected.
C8_Witness ==
    /\ SetCalled
    /\ op.new = 120
    /\ ret.exc = "ThunderBorgException"
    /\ log = <<>>

\* The SET_I2C_ADD frame i carries the new address, goes to the current
\* address, and the event before it is a read on that channel that
\* identified a ThunderBorg.
WrittenAfterProbe(i) ==
    /\ log[i].frame = <<COMMAND_SET_I2C_ADD, op.new>>
    /\ log[i].bus = op.bus
    /\ log[i].addr = CurrentAddress
    /\ i > 2
    /\ log[i - 1].ev = "read"
    /\ log[i - 1].bus = op.bus
    /\ log[i - 1].addr = CurrentAddress
    /\ IsThunderBorgFrame(log[i - 1].frame)
    /\ log[i - 2].ev = "write"
    /\ log[i - 2].frame = <<COMMAND_GET_ID>>

\* After frame i: the settle delay, then the channel is opened on the new
\* address.
SettledAndReopened(i) ==
    /\ Len(log) >= i + 2
    /\ log[i + 1].ev = "sleep"
    /\ log[i + 2].ev = "open"
    /\ log[i + 2].bus = op.bus
    /\ log[i + 2].addr = op.new

\* After the re-open: GET_ID is written on the channel of the new address.
Reprobed(i) ==
    /\ Len(log) >= i + 3
    /\ log[i + 3].ev = "write"
    /\ log[i + 3].frame = <<COMMAND_GET_ID>>
    /\ log[i + 3].bus = op.bus
    /\ log[i + 3].addr = op.new

\* C9 as claimed: SET_I2C_ADD is written only after a probe of the current
\* address returned 0x15, and is followed by the settle delay, the re-open
\* at the new address and a GET_ID probe there.
C9_MoveThenReprobe ==
    SetCalled =>
      \A i \in AddressWrites :
         WrittenAfterProbe(i) /\ SettledAndReopened(i) /\ Reprobed(i)

\* C9, amended: SET_I2C_ADD is written (at most once) only after a GET_ID
\* probe on the channel bound to the current address returned 0x15; it is
\* followed by the settle delay and the re-open at the new address, and,
\* when the streams could be opened and bound there, by a GET_ID probe on
\* them.
C9_MoveThenReprobeIfOpened ==
    SetCalled =>
      /\ Cardinality(AddressWrites) <= 1
      /\ \A i \in AddressWrites :
            /\ WrittenAfterProbe(i)
            /\ SettledAndReopened(i)
            /\ IF log[i + 2].ok /\ (Len(log) = i + 2 \/ log[i + 3].ev # "bind")
               THEN Reprobed(i)
               ELSE \A j \in (i + 3)..Len(log) :
                       log[j].ev \notin {"write", "read"}

\* The address was changed and the board answered at the new address.
C9_Witness ==
    /\ SetCalled
    /\ ret.exc = "none"
    /\ \E i \in AddressWrites :
          /\ Reprobed(i)
          /\ ProbeFound(op.bus, op.new)

\* C10: set_i2c_address returns normally only if, after SET_I2C_ADD, the
\* probe of the new address returned the identifier 0x15; otherwise it
\* raises ThunderBorgException.
C10_ReturnsOnlyWhenConfirmed ==
    SetCalled =>
      LET confirmed == /\ AddressWrites # {}
                       /\ ProbeFound(op.bus, op.new)
                       /\ \A i \in AddressWrites :
                             \E j \in ReadsAt(op.bus, op.new) : j > i
      IN  /\ ret.exc = "none" => confirmed
          /\ ~confirmed => ret.exc = "ThunderBorgException"


---------------------------------------------------------------------------
(* Properties of the motor commands, under DriveSpec.  A level is compared *)
(* as an exact fraction.                                                   *)

\* | x - y | <= tol, for fractions x, y and tol.
Within(x, y, tol) ==
    LET diff == x[1] * y[2] - y[1] * x[2]
        abs == IF diff < 0 THEN -diff ELSE diff
    IN  abs * tol[2] <= tol[1] * x[2] * y[2]

\* lo <= x <= hi, for fractions.
Between(lo, x, hi) ==
    /\ lo[1] * x[2] <= x[1] * lo[2]
    /\ x[1] * hi[2] <= hi[1] * x[2]

AbsLevel(level) == IF level[1] < 0 THEN <<-level[1], level[2]>> ELSE level

\* | level | * 255 cut to a whole number, at most 255.
TruncatedMagnitude(level) ==
    LET q == (255 * AbsLevel(level)[1]) \div level[2]
    IN  IF q > 255 THEN 255 ELSE q

\* | level | * 255 rounded to the nearest whole number (a half goes to the
\* even one), at most 255.
RoundedMagnitude(level) ==
    LET n == 255 * AbsLevel(level)[1]
        q == n \div level[2]
        twice == 2 * (n % level[2])
        r == IF twice > level[2] \/ (twice = level[2] /\ q % 2 = 1)
             THEN q + 1
             ELSE q
    IN  IF r > 255 THEN 255 ELSE r

\* The call performed one write, of this frame, and nothing else.
OneWrite(frame) ==
    /\ Len(log) = 1
    /\ log[1].ev = "write"
    /\ log[1].frame = frame

\* C11: set_motor_one and set_motor_two write exactly one frame
\* [command, magnitude]: the reverse code (9 or 12) for a level below 0 and
\* the forward code (8 or 11) otherwise, with
\* magnitude = clamp(round(|level| * 255), 0, 255).
C11_FrameRounded ==
    /\ op.name = "set_motor_one" =>
          OneWrite(<<IF op.arg[1] < 0 THEN 9 ELSE 8, RoundedMagnitude(op.arg)>>)
    /\ op.name = "set_motor_two" =>
          OneWrite(<<IF op.arg[1] < 0 THEN 12 ELSE 11,
                     RoundedMagnitude(op.arg)>>)

\* C11, amended: set_motor_one and set_motor_two write exactly one frame
\* [command, magnitude]: the reverse code (9 or 12) for a level below 0 and
\* the forward code (8 or 11) otherwise, with magnitude = |level| * 255
\* truncated to a whole number and limited to 255.
C11_FrameTruncated ==
    /\ op.name = "set_motor_one" =>
          OneWrite(<<IF op.arg[1] < 0 THEN 9 ELSE 8,
                     TruncatedMagnitude(op.arg)>>)
    /\ op.name = "set_motor_two" =>
          OneWrite(<<IF op.arg[1] < 0 THEN 12 ELSE 11,
                     TruncatedMagnitude(op.arg)>>)

\* set_motor_one(0.5) has written [8, 127] and returned.
C11_Witness ==
    /\ op.name = "set_motor_one"
    /\ op.arg = <<1, 2>>
    /\ ret.exc = "none"
    /\ log = <<Event("write", 1, 21, <<8, 127>>, TRUE)>>

\* The frame of the last read of the call.
LastRead ==
    log[CHOOSE i \in EventsOf("read") : \A j \in EventsOf("read") : j <= i].frame

\* The call returned what the board answers to its command: the frame of
\* its last read is the answer of the board's registers.
BoardAnswered ==
    /\ ret.exc = "none"
    /\ EventsOf("read") # {}
    /\ LastRead = Answer(Started(session), op.cmd)

InUnitRange(level) == Between(<<-1, 1>>, level, <<1, 1>>)

\* The level read back is within 1/255 of the level set, not of the
\* opposite sign, and at the ends of the range within [0.98, 1.0] and
\* [-1.0, -0.98].
ReadsBack(level, back) ==
    /\ Within(back, level, <<1, 255>>)
    /\ back[1] * level[1] >= 0
    /\ level = <<1, 1>> => Between(<<98, 100>>, back, <<1, 1>>)
    /\ level = <<-1, 1>> => Between(<<-1, 1>>, back, <<-98, 100>>)

\* C12: for every level in [-1, 1], get_motor_one (get_motor_two) after
\* the level was set on motor one (two), answered by a board that stores
\* the direction and magnitude written and that the failsafe has not
\* stopped, returns a value within 1/255 of the level with the same sign;
\* 1.0 reads back in [0.98, 1.0] and -1.0 in [-1.0, -0.98].
C12_MotorRoundTrip ==
    /\ ( /\ op.name = "get_motor_one"
         /\ BoardAnswered
         /\ sent.one # <<>>
         /\ "a" \notin regs.cut
         /\ InUnitRange(sent.one) )
       => ReadsBack(sent.one, ret.val)
    /\ ( /\ op.name = "get_motor_two"
         /\ BoardAnswered
         /\ sent.two # <<>>
         /\ "b" \notin regs.cut
         /\ InUnitRange(sent.two) )
       => ReadsBack(sent.two, ret.val)

\* get_motor_one has returned -127/255 for the level -0.5 set before.
C12_Witness ==
    /\ op.name = "get_motor_one"
    /\ BoardAnswered
    /\ sent.one = <<-1, 2>>
    /\ sent.how = "set_motor_one"
    /\ ret.val = <<-127, 255>>

\* C13: get_motor_one and get_motor_two decode a frame that echoes their
\* command as byte[2] / 255, negated exactly when byte[1] is the reverse
\* value 2; when byte[1] is neither 1 nor 2 the call raises
\* ThunderBorgException, returns no level, and that read is the last
\* thing it did.
C13_DecodeOrRaise ==
    ( /\ op.name \in {"get_motor_one", "get_motor_two"}
      /\ EventsOf("read") # {}
      /\ LastRead[1] = op.cmd )
    => /\ LastRead[2] = 2 =>
             ret.exc = "none" /\ ret.val = <<-LastRead[3], 255>>
       /\ LastRead[2] = 1 =>
             ret.exc = "none" /\ ret.val = <<LastRead[3], 255>>
       /\ LastRead[2] \notin {1, 2} =>
             /\ ret.exc = "ThunderBorgException"
             /\ ret.val = <<>>
             /\ log[Len(log)].ev = "read"
             /\ \A i \in EventsOf("read") :
                   log[i].frame[1] = op.cmd => i = Len(log)

\* get_motor_one has raised on a frame that echoes GET_A with the
\* direction byte 3.
C13_Witness ==
    /\ op.name = "get_motor_one"
    /\ ret.exc = "ThunderBorgException"
    /\ EventsOf("read") # {}
    /\ LastRead = <<10, 3, 128, 0, 0, 0>>

\* The call is a get of motor one (two) answered by the board.
MotorOneRead == op.name = "get_motor_one" /\ BoardAnswered
MotorTwoRead == op.name = "get_motor_two" /\ BoardAnswered

\* C14: halt_motors writes the single frame [ALL_OFF, 0], and after one
\* halt_motors or several in a row, get_motor_one and get_motor_two both
\* return 0.0, whatever the motors were doing before.
C14_HaltStopsBoth ==
    /\ op.name = "halt_motors" => OneWrite(<<14, 0>>)
    /\ ((MotorOneRead \/ MotorTwoRead) /\ sent.halts >= 1) => ret.val[1] = 0
    /\ sent.halts >= 1 => sent.how = "halt_motors"

\* get_motor_two has returned 0.0 after two halt_motors in a row.
C14_Witness ==
    /\ MotorTwoRead
    /\ sent.halts = 2
    /\ ret.val = <<0, 255>>

\* The level a get returns for a motor set to level: the magnitude that
\* set_motor_one and set_motor_two send, over 255, with the sign of the
\* command.
LevelOf(level) ==
    <<IF level[1] < 0 THEN -TruncatedMagnitude(level)
                      ELSE TruncatedMagnitude(level), 255>>

\* C15: set_both_motors writes one frame, with the command 17 (forward) or
\* 18 (reverse) and the magnitude of the single-motor setters, and
\* afterwards get_motor_one and get_motor_two both return the level they
\* return after set_motor_one and set_motor_two with the same argument.
C15_BothLikeEach ==
    /\ op.name = "set_both_motors" =>
          OneWrite(<<IF op.arg[1] < 0 THEN 18 ELSE 17,
                     TruncatedMagnitude(op.arg)>>)
    /\ ( /\ MotorOneRead
         /\ sent.how \in {"set_both_motors", "set_motor_one"}
         /\ "a" \notin regs.cut )
       => ret.val = LevelOf(sent.one)
    /\ ( /\ MotorTwoRead
         /\ sent.how \in {"set_both_motors", "set_motor_two"}
         /\ "b" \notin regs.cut )
       => ret.val = LevelOf(sent.two)
    /\ sent.how = "set_both_motors" => sent.one = sent.two

\* get_motor_two has returned -1.0 after set_both_motors(-1.0).
C15_Witness ==
    /\ MotorTwoRead
    /\ sent.how = "set_both_motors"
    /\ sent.two = <<-1, 1>>
    /\ ret.val = <<-255, 255>>

\* The last speed call set motor one (two).
SetsOne == sent.how \in {"set_motor_one", "set_both_motors", "halt_motors"}
SetsTwo == sent.how \in {"set_motor_two", "set_both_motors", "halt_motors"}

\* C16: with the failsafe enabled by set_comms_failsafe(True), once more
\* than 0.25 s (5 ticks) have passed without a speed command the board
\* reports both motors at 0; a motor set no more than 0.25 s ago reports
\* the level set; and while the failsafe has not been enabled since the
\* motor was set, it reports the level set however long ago that was.
C16_Failsafe ==
    /\ ( /\ MotorOneRead \/ MotorTwoRead
         /\ sent.failsafe = <<TRUE>>
         /\ regs.quiet > 5 )
       => ret.val[1] = 0
    /\ (MotorOneRead /\ SetsOne /\ (regs.quiet <= 5 \/ ~sent.armed))
       => ret.val = LevelOf(sent.one)
    /\ (MotorTwoRead /\ SetsTwo /\ (regs.quiet <= 5 \/ ~sent.armed))
       => ret.val = LevelOf(sent.two)

\* Motor one was set to 0.5 with the failsafe enabled, and after more than
\* 0.25 s without a speed command get_motor_one has returned 0.0.
C16_Witness ==
    /\ MotorOneRead
    /\ sent.failsafe = <<TRUE>>
    /\ sent.how = "set_motor_one"
    /\ sent.one = <<1, 2>>
    /\ regs.quiet > 5
    /\ ret.val = <<0, 255>>

---------------------------------------------------------------------------
(* Properties of the settings, under SettingsSpec.                         *)

\* C17: set_comms_failsafe and set_led_battery_state write one frame with
\* one payload byte, 1 for True and 0 for False; get_comms_failsafe and
\* get_led_battery_state return False exactly when byte[1] of the frame
\* they got is 0; so a get answered by the board returns the state last
\* set.
C17_BooleanSettings ==
    /\ op.name = "set_comms_failsafe" =>
          OneWrite(<<19, IF op.arg[1] THEN 1 ELSE 0>>)
    /\ op.name = "set_led_battery_state" =>
          OneWrite(<<6, IF op.arg[1] THEN 1 ELSE 0>>)
    /\ ( /\ op.name \in {"get_comms_failsafe", "get_led_battery_state"}
         /\ ret.exc = "none" )
       => /\ EventsOf("read") # {}
          /\ ret.val = FALSE <=> LastRead[2] = 0
    /\ ( /\ op.name = "get_comms_failsafe"
         /\ BoardAnswered
         /\ sent.failsafe # <<>> )
       => ret.val = sent.failsafe[1]
    /\ ( /\ op.name = "get_led_battery_state"
         /\ BoardAnswered
         /\ sent.ledmon # <<>> )
       => ret.val = sent.ledmon[1]

\* get_led_battery_state has returned True after
\* set_led_battery_state(True).
C17_Witness ==
    /\ op.name = "get_led_battery_state"
    /\ BoardAnswered
    /\ sent.ledmon = <<TRUE>>
    /\ ret.val = TRUE

InUnitInterval(x) == Between(<<0, 1>>, x, <<1, 1>>)

\* Each channel read back is within 1/255 of the channel set, in the
\* order r, g, b.
ColorReadsBack(color, back) ==
    (\A i \in 1..3 : InUnitInterval(color[i]))
    => \A i \in 1..3 : Within(back[i], color[i], <<1, 255>>)

\* C18: for every (r, g, b) in [0, 1]^3, get_led_one (get_led_two) after
\* the colour was set on LED one (two), answered by a board that stores
\* the three bytes written, returns each channel within 1/255 of the
\* value set, in the order r, g, b.
C18_LedRoundTrip ==
    /\ (op.name = "get_led_one" /\ BoardAnswered /\ sent.led1 # <<>>)
       => ColorReadsBack(sent.led1, ret.val)
    /\ (op.name = "get_led_two" /\ BoardAnswered /\ sent.led2 # <<>>)
       => ColorReadsBack(sent.led2, ret.val)

\* get_led_one has returned (1.0, 127/255, 0.0) for the colour
\* (1.0, 0.5, 0.0) set before.
C18_Witness ==
    /\ op.name = "get_led_one"
    /\ BoardAnswered
    /\ sent.led1 = <<(<<1, 1>>), (<<1, 2>>), (<<0, 1>>)>>
    /\ ret.val = <<(<<255, 255>>), (<<127, 255>>), (<<0, 255>>)>>

InVoltRange(v) == Between(<<0, 1>>, v, <<363, 10>>)

\* C19: for every (min, max) with both in [0.0, 36.3] V,
\* get_battery_monitoring_limits after set_battery_monitoring_limits(min,
\* max), answered by the board, returns (min, max) each within one step
\* of 36.3 / 255 V of the value set, in that order.
C19_LimitsRoundTrip ==
    ( /\ op.name = "get_battery_monitoring_limits"
      /\ BoardAnswered
      /\ sent.limits # <<>>
      /\ InVoltRange(sent.limits[1])
      /\ InVoltRange(sent.limits[2]) )
    => /\ Len(ret.val) = 2
       /\ Within(ret.val[1], sent.limits[1], <<363, 2550>>)
       /\ Within(ret.val[2], sent.limits[2], <<363, 2550>>)

\* get_battery_monitoring_limits has returned 84/255 and 118/255 of 36.3 V
\* for the limits 12.0 V and 16.8 V set before.
C19_Witness ==
    /\ op.name = "get_battery_monitoring_limits"
    /\ BoardAnswered
    /\ sent.limits = <<(<<12, 1>>), (<<168, 10>>)>>
    /\ ret.val = <<(<<84 * 363, 2550>>), (<<118 * 363, 2550>>)>>

\* C20: set_battery_monitoring_limits returns only after it has slept the
\* settling delay that follows its write, so that between two calls of the
\* caller no battery limits are on their way to the EEPROM; when the write
\* fails the call raises without sleeping.
C20_SettlesBeforeReturn ==
    /\ regs.pending = <<>>
    /\ op.name = "set_battery_monitoring_limits" =>
          /\ Len(log) >= 1
          /\ log[1].ev = "write"
          /\ log[1].frame[1] = 22
          /\ IF ret.exc = "none"
             THEN /\ log[1].ok
                  /\ Len(log) = 2
                  /\ log[2].ev = "sleep"
             ELSE /\ ~log[1].ok
                  /\ Len(log) = 1

\* set_battery_monitoring_limits has written the limits, slept and
\* returned, and the board holds the new limits.
C20_Witness ==
    /\ op.name = "set_battery_monitoring_limits"
    /\ ret.exc = "none"
    /\ Len(log) = 2
    /\ log[2].ev = "sleep"
    /\ op.arg = <<(<<12, 1>>), (<<168, 10>>)>>
    /\ regs.limits = <<84, 118>>


---------------------------------------------------------------------------
(* Properties of the frames, under FrameSpec.                              *)

\* 255 * x rounded to the nearest whole number (a half goes to the even
\* one), for a fraction x.
Round255(x) ==
    LET n == IF x[1] < 0 THEN -255 * x[1] ELSE 255 * x[1]
        q == n \div x[2]
        twice == 2 * (n % x[2])
        r == IF twice > x[2] \/ (twice = x[2] /\ q % 2 = 1)
             THEN q + 1
             ELSE q
    IN  IF x[1] < 0 THEN -r ELSE r

\* 255 * x cut to a whole number (towards zero) and kept within 0 .. 255.
Trunc255(x) ==
    LET n == IF x[1] < 0 THEN -255 * x[1] ELSE 255 * x[1]
        q == IF x[1] < 0 THEN -(n \div x[2]) ELSE n \div x[2]
    IN  IF q < 0 THEN 0 ELSE IF q > 255 THEN 255 ELSE q

\* The frames of the external LED chain for a list of colours, the bytes
\* of a channel made by ByteOf: the start frame, then a word per colour.
ChainFrames(colors, ByteOf(_)) ==
    <<(<<24, 0, 0, 0, 0>>)>> \o
    [i \in 1..Len(colors) |->
        <<24, 255, ByteOf(colors[i][3]), ByteOf(colors[i][2]),
          ByteOf(colors[i][1])>>]

\* The first Len(log) of the frames were written, in order, and nothing
\* else was done; only the last write may have failed.
WroteFirstOf(frames) ==
    /\ Len(log) <= Len(frames)
    /\ \A i \in 1..Len(log) :
          /\ log[i].ev = "write"
          /\ log[i].frame = frames[i]
          /\ i < Len(log) => log[i].ok

\* C21: set_external_led_colors(colors) writes exactly 1 + len(colors)
\* WRITE_EXTERNAL_LED frames: the start frame (0, 0, 0, 0), then one frame
\* per colour in list order with payload
\* (255, round(255*b), round(255*g), round(255*r)); no colour word comes
\* before the start frame.  Stated of the calls that returned.
C21_ChainRounded ==
    (op.name = "set_external_led_colors" /\ ret.exc = "none") =>
        /\ Len(log) = 1 + Len(op.arg)
        /\ WroteFirstOf(ChainFrames(op.arg, Round255))

\* C21, amended: a call of set_external_led_colors(colors) that returns
\* has written exactly 1 + len(colors) WRITE_EXTERNAL_LED frames: the start
\* frame (0, 0, 0, 0), then one frame per colour in list order with payload
\* (255, B(b), B(g), B(r)), B(x) being 255 * x cut to a whole number and
\* kept within 0 .. 255; a call that raises has written the first frames
\* of that sequence, up to the write that failed; no colour word comes
\* before the start frame.
C21_ChainTruncated ==
    op.name = "set_external_led_colors" =>
        /\ WroteFirstOf(ChainFrames(op.arg, Trunc255))
        /\ ret.exc = "none" <=>
              (Len(log) = 1 + Len(op.arg) /\ log[Len(log)].ok)

\* set_external_led_colors([[1, 0, 0], [0.5, 0, 0], [0, 0, 0]]) has
\* returned: half red was sent as 127.
C21_Witness ==
    /\ op.name = "set_external_led_colors"
    /\ Len(op.arg) = 3
    /\ ret.exc = "none"
    /\ Len(log) = 4
    /\ log[1].frame = <<24, 0, 0, 0, 0>>
    /\ log[3].frame = <<24, 255, 0, 0, 127>>

\* The commands an operation sends.
CommandsOf(name) ==
    CASE name = "set_motor_one" -> {COMMAND_SET_A_FWD, COMMAND_SET_A_REV}
      [] name = "set_motor_two" -> {COMMAND_SET_B_FWD, COMMAND_SET_B_REV}
      [] name = "set_both_motors" -> {COMMAND_SET_ALL_FWD, COMMAND_SET_ALL_REV}
      [] name = "get_motor_one" -> {COMMAND_GET_A}
      [] name = "get_motor_two" -> {COMMAND_GET_B}
      [] name = "halt_motors" -> {COMMAND_ALL_OFF}
      [] name = "set_led_one" -> {COMMAND_SET_LED1}
      [] name = "set_led_two" -> {COMMAND_SET_LED2}
      [] name = "set_both_leds" -> {COMMAND_SET_LEDS}
      [] name = "get_led_one" -> {COMMAND_GET_LED1}
      [] name = "get_led_two" -> {COMMAND_GET_LED2}
      [] name = "set_led_battery_state" -> {COMMAND_SET_LED_BATT_MON}
      [] name = "get_led_battery_state" -> {COMMAND_GET_LED_BATT_MON}
      [] name = "set_comms_failsafe" -> {COMMAND_SET_FAILSAFE}
      [] name = "get_comms_failsafe" -> {COMMAND_GET_FAILSAFE}
      [] name = "get_drive_fault_one" -> {COMMAND_GET_DRIVE_A_FAULT}
      [] name = "get_drive_fault_two" -> {COMMAND_GET_DRIVE_B_FAULT}
      [] name = "get_battery_voltage" -> {COMMAND_GET_BATT_VOLT}
      [] name = "set_battery_monitoring_limits" -> {COMMAND_SET_BATT_LIMITS}
      [] name = "get_battery_monitoring_limits" -> {COMMAND_GET_BATT_LIMITS}
      [] name = "write_external_led_word" -> {COMMAND_WRITE_EXTERNAL_LED}
      [] name = "set_external_led_colors" -> {COMMAND_WRITE_EXTERNAL_LED}
      [] name = "set_i2c_address" -> {COMMAND_GET_ID, COMMAND_SET_I2C_ADD}
      [] name = "ThunderBorg" -> {COMMAND_GET_ID}
      [] name = "find_board" -> {COMMAND_GET_ID}
      [] name = "_read" -> {op.cmd}
      [] OTHER -> {}

\* The length of the payload of a command; -1 for a byte that is no
\* command.
PayloadLength(c) ==
    IF c \in {2, 4, 7, 10, 13, 15, 16, 20, 21, 23, 153} THEN 0
    ELSE IF c \in {8, 9, 11, 12, 14, 17, 18} THEN 1
    ELSE IF c \in {6, 19, 170} THEN 1
    ELSE IF c = 22 THEN 2
    ELSE IF c \in {1, 3, 5} THEN 3
    ELSE IF c = 24 THEN 4
    ELSE -1

\* C22: every frame an operation writes is the command code byte followed
\* by the payload of that command: no byte for a get command and GET_ID,
\* 1 byte for the motor commands, the LED battery monitor, the failsafe
\* and the address, 2 for the battery limits, 3 for an LED colour and 4
\* for the external LED word.
C22_FrameShape ==
    \A i \in EventsOf("write") :
        /\ Len(log[i].frame) >= 1
        /\ log[i].frame[1] \in CommandsOf(op.name)
        /\ Len(log[i].frame) - 1 = PayloadLength(log[i].frame[1])

\* set_i2c_address has asked for the identifier with [0x99] and sent the
\* address with [0xAA, 0x70].
C22_Witness ==
    /\ op.name = "set_i2c_address"
    /\ ret.exc = "none"
    /\ \E i, j \in EventsOf("write") :
          /\ i < j
          /\ log[i].frame = <<153>> /\ log[i].ok
          /\ log[j].frame = <<170, 112>> /\ log[j].ok

\* The operations that take a number and send it.
NumericSets ==
    { "set_motor_one", "set_motor_two", "set_both_motors", "set_led_one",
      "set_led_two", "set_both_leds", "set_battery_monitoring_limits",
      "write_external_led_word", "set_external_led_colors" }

\* The call went as far as the channel: it returned, or it raised
\* ThunderBorgException for a write the channel refused.
NotRejected ==
    /\ Len(log) >= 1
    /\ \/ ret.exc = "none"
       \/ /\ ret.exc = "ThunderBorgException"
          /\ log[Len(log)].ev = "write"
          /\ ~log[Len(log)].ok

\* C23: whatever the numbers given to a set operation, within the
\* documented range or not (a motor level beyond [-1, 1], a colour channel
\* outside [0, 1], a battery limit outside [0, 36.3], an external LED byte
\* outside [0, 255]), the operation does not reject them, and every
\* payload byte it writes lies in 0 .. 255.
C23_ClampedNotRejected ==
    op.name \in NumericSets =>
        /\ NotRejected
        /\ \A i \in EventsOf("write") :
              \A k \in 2..Len(log[i].frame) : log[i].frame[k] \in 0..255

\* set_led_one(1.5, -0.5, 0.999) has returned after writing
\* [1, 255, 0, 254].
C23_Witness ==
    /\ op.name = "set_led_one"
    /\ op.arg = <<(<<3, 2>>), (<<-1, 2>>), (<<999, 1000>>)>>
    /\ ret.exc = "none"
    /\ log = <<Event("write", 1, 21, <<1, 255, 0, 254>>, TRUE)>>

---------------------------------------------------------------------------
(* Properties of the failures, under FaultSpec.                            *)

\* A public operation was called (_read is the step of the get
\* operations, not one of them).
PublicCall == op.name \notin {"none", "_read"}

\* C24: a public operation of an instance or of the class (the
\* constructor, the set and get commands, halt_motors, find_board,
\* set_i2c_address) that fails because a transfer failed or a read came
\* back empty or short raises ThunderBorgException: neither the error of
\* the stream nor an indexing error reaches the caller.
C24_FailuresWrapped ==
    PublicCall => ret.exc \notin {"IOError", "IndexError"}

\* C25: an interruption by the user (KeyboardInterrupt) during a write or
\* a read of an operation reaches the caller as it is and at once: the
\* operation attempts no transfer after it, and does not turn it into
\* ThunderBorgException.
C25_InterruptPropagates ==
    \A i \in EventsOf("interrupt") :
        /\ ret.exc = "KeyboardInterrupt"
        /\ \A j \in (i + 1)..Len(log) : log[j].ev = "close"

\* get_motor_one was interrupted in its second attempt, after a first
\* read that did not echo GET_A.
C25_Witness ==
    /\ op.name = "get_motor_one"
    /\ ret.exc = "KeyboardInterrupt"
    /\ Len(log) = 3
    /\ log[1].ev = "write" /\ log[1].ok
    /\ log[2].ev = "read" /\ log[2].frame = <<2, 9, 8, 7, 0, 0>>
    /\ log[3].ev = "interrupt"

---------------------------------------------------------------------------
(* Properties of the streams of the constructor and of set_i2c_address,    *)
(* under StreamSpec.                                                       *)

\* The constructor was called and its first channel, on the requested bus
\* and address, could not be opened or could not be bound.
OpenFailedFirst ==
    /\ op.name = "ThunderBorg"
    /\ Len(log) >= 1
    /\ log[1].ev = "open"
    /\ log[1].bus = op.bus /\ log[1].addr = op.addr
    /\ \/ ~log[1].ok
       \/ Len(log) >= 2 /\ log[2].ev = "bind" /\ ~log[2].ok

\* Transfer i went to a channel that was opened and bound just before.
OnOpenChannel(i) ==
    \E j \in 1..(i - 1) :
        /\ log[j].ev = "open" /\ log[j].ok
        /\ log[j].bus = log[i].bus /\ log[j].addr = log[i].addr
        /\ \A k \in (j + 1)..(i - 1) : log[k].ev \in {"write", "read"}

C27_FailedConstructorClosed ==
    (op.name = "ThunderBorg" /\ ret.exc = "ThunderBorgException") =>
        ~ret.tb.open

\* C30: on every way out of set_i2c_address after a channel was opened
\* (it returns, with or without a change, or raises ThunderBorgException,
\* 'Failed to set address' included), the streams it opened are closed
\* before the caller goes on.  Stated of the streams its instance holds at
\* that moment.
C30_AddressSetterClosed ==
    (/\ op.name = "set_i2c_address"
     /\ ret.exc \in {"none", "ThunderBorgException"}
     /\ \E i \in EventsOf("open") : log[i].ok) =>
        ~ret.tb.open

---------------------------------------------------------------------------
(* Properties of a session that is not connected, under FaultSpec.         *)

\* The operations of a session that send a command to the board.
CommandNames ==
    {"set_motor_one", "set_motor_two", "set_both_motors", "get_motor_one",
     "get_motor_two", "halt_motors", "set_led_one", "set_led_two",
     "set_both_leds", "get_led_one", "get_led_two", "set_led_battery_state",
     "get_led_battery_state", "set_comms_failsafe", "get_comms_failsafe",
     "get_drive_fault_one", "get_drive_fault_two", "get_battery_voltage",
     "set_battery_monitoring_limits", "get_battery_monitoring_limits",
     "write_external_led_word", "set_external_led_colors"}

\* This step is a command called on a session whose streams are not open:
\* never opened (static_init) or closed.
NotConnectedCall ==
    /\ Idle
    /\ ~session.open
    /\ op'.name \in CommandNames

\* The step transferred nothing and opened nothing: the session, the
\* board and the channel are as before, and the call logged at most writes
\* that were refused.
NothingDone ==
    /\ session' = session
    /\ UNCHANGED <<tborgs, regs, stale, fault, sent>>
    /\ \A i \in 1..Len(log') : log'[i].ev = "write" /\ ~log'[i].ok

\* C28: a command (set_*, get_*, halt_motors, write_external_led_word)
\* called on a session that is not connected, whether made with
\* static_init and never probed or closed with close_streams, fails with
\* ThunderBorgException, writes no frame and neither probes nor opens a
\* channel.
C28_NotConnectedFails ==
    [][NotConnectedCall =>
          /\ ret'.exc = "ThunderBorgException"
          /\ NothingDone]_vars

\* C28, amended: the command fails, with ThunderBorgException after
\* close_streams and with the AssertionError of the assert statements of
\* _write and _read on a session made with static_init and never probed;
\* in both cases it writes no frame and neither probes nor opens a
\* channel.
C28_NotConnectedRefused ==
    [][NotConnectedCall =>
          /\ ret'.exc = IF session.has THEN "ThunderBorgException"
                                       ELSE "AssertionError"
          /\ NothingDone]_vars

\* get_led_one on a session closed with close_streams was refused at the
\* write of its first attempt.
C28_Witness ==
    /\ op.name = "get_led_one"
    /\ session.has /\ ~session.open
    /\ ret.exc = "ThunderBorgException"
    /\ log = <<Event("write", session.bus, session.addr,
                     <<COMMAND_GET_LED1>>, FALSE)>>

\* C29: close_streams can be called in any state of the session and any
\* number of times: it raises nothing, the streams are closed after it,
\* and on a session that has no stream or whose streams are closed
\* already it changes nothing.
C29_CloseIdempotent ==
    [][(Idle /\ op'.name = "close_streams") =>
          /\ ret'.exc = "none"
          /\ ~session'.open
          /\ ~session.open => session' = session
          /\ \A i \in 1..Len(log') :
                log'[i].ev = "close" /\ (log'[i].ok <=> session.open)
          /\ UNCHANGED <<tborgs, regs, stale, fault, sent>>]_vars

\* close_streams was called on a session whose streams were closed
\* already.
C29_Witness ==
    /\ op.name = "close_streams"
    /\ ret.exc = "none"
    /\ session.has /\ ~session.open
    /\ log = <<Event("close", session.bus, session.addr, <<>>, FALSE)>>

---------------------------------------------------------------------------
(* Properties of the scan and of the probes.                               *)

\* C31: during find_board the channel opened for one candidate address
\* is closed before the channel of the next candidate is opened, so that
\* at most one pair of streams is open at any time, and find_board (with
\* close=True) returns with no stream open.
C31_TrialChannelClosed ==
    op.name = "find_board" =>
        /\ \A i, j \in EventsOf("open") :
              (i < j /\ log[i].ok) =>
                  \E k \in (i + 1)..(j - 1) :
                      /\ log[k] = Event("close", log[i].bus, log[i].addr,
                                        <<>>, TRUE)
        /\ ret.exc = "none" => ~ret.tb.open

\* find_board and the get operations.
QueryNames ==
    {"find_board", "get_motor_one", "get_motor_two", "get_led_one",
     "get_led_two", "get_led_battery_state", "get_comms_failsafe",
     "get_drive_fault_one", "get_drive_fault_two", "get_battery_voltage",
     "get_battery_monitoring_limits"}

\* The command each of them asks the board.
QueryCommand(name) ==
    CASE name = "find_board" -> COMMAND_GET_ID
      [] name = "get_motor_one" -> COMMAND_GET_A
      [] name = "get_motor_two" -> COMMAND_GET_B
      [] name = "get_led_one" -> COMMAND_GET_LED1
      [] name = "get_led_two" -> COMMAND_GET_LED2
      [] name = "get_led_battery_state" -> COMMAND_GET_LED_BATT_MON
      [] name = "get_comms_failsafe" -> COMMAND_GET_FAILSAFE
      [] name = "get_drive_fault_one" -> COMMAND_GET_DRIVE_A_FAULT
      [] name = "get_drive_fault_two" -> COMMAND_GET_DRIVE_B_FAULT
      [] name = "get_battery_voltage" -> COMMAND_GET_BATT_VOLT
      [] name = "get_battery_monitoring_limits" -> COMMAND_GET_BATT_LIMITS

\* C32: find_board and every get operation, in all their attempts, write
\* only the frame made of their own query command, without payload; the
\* motor levels, the LED colours, the failsafe flag, the battery limits
\* and the address of the board are after the call what they were before.
C32_QueriesOnly ==
    [][(Idle /\ op'.name \in QueryNames) =>
          /\ \A i \in 1..Len(log') :
                (log'[i].ev \in {"write", "interrupt"}
                    /\ log'[i].frame # <<>>) =>
                    log'[i].frame = <<QueryCommand(op'.name)>>
          /\ regs'.a = regs.a /\ regs'.b = regs.b
          /\ regs'.led1 = regs.led1 /\ regs'.led2 = regs.led2
          /\ regs'.ledmon = regs.ledmon
          /\ regs'.failsafe = regs.failsafe
          /\ regs'.limits = regs.limits /\ regs'.pending = regs.pending
          /\ tborgs' = tborgs]_vars

\* get_motor_one, after set_motor_one(1/2) had set the motor to 127, asked
\* three times (two stale frames were pending) and left the motor at 127.
C32_Witness ==
    /\ op.name = "get_motor_one"
    /\ ret.exc = "none"
    /\ Cardinality(EventsOf("write")) = 3
    /\ \A i \in EventsOf("write") : log[i].frame = <<COMMAND_GET_A>>
    /\ regs.a = <<COMMAND_VALUE_FWD, 127>>

\* C33: the streams belong to one instance.  An operation on one instance
\* (close_streams and the re-binding of a scan included) and a class
\* method working on an instance of its own leave the streams of every
\* other instance as they are, open or closed and bound where they were,
\* and a command or a close of the session transfers on the channel of the
\* session only.
C33_StreamsPerInstance ==
    [][(Idle /\ op'.name # "none") =>
          /\ peer' = peer
          /\ op'.name \in {"find_board", "set_i2c_address"} =>
                session' = session
          /\ op'.name \in CommandNames \cup {"close_streams"} =>
                \A i \in 1..Len(log') :
                    log'[i].bus = session.bus /\ log'[i].addr = session.addr
       ]_vars

\* find_board has scanned the bus and closed its streams while the caller
\* holds two open instances, one on each board.
C33_Witness ==
    /\ op.name = "find_board"
    /\ ret.exc = "none"
    /\ ~ret.tb.open
    /\ session.open /\ peer.open
    /\ session.addr # peer.addr

\* The SET_I2C_ADD frames the call wrote or tried to write.
SetAddressWrites ==
    { i \in EventsOf("write") : log[i].frame[1] = COMMAND_SET_I2C_ADD }

\* The scan of set_i2c_address ends with the close of the streams bound
\* to the last address of the range (on a bus that cannot be opened the
\* whole call is the scan).
ScanEnd ==
    LET closes == { i \in EventsOf("close") : log[i].addr = SCAN_STOP - 1 }
    IN  IF closes = {} THEN Len(log) + 1
        ELSE CHOOSE i \in closes : \A j \in closes : i <= j

\* The addresses of the bus opened before event end.
ScanOpened(end) ==
    { log[i].addr : i \in { j \in EventsOf("open") :
                              j < end /\ log[j].bus = op.bus } }

\* The addresses the scan took for a board: the last frame read there has
\* the length and the identifier of a ThunderBorg.
ScanHits(end) ==
    { log[i].addr : i \in { j \in EventsOf("read") :
                              /\ j < end
                              /\ log[j + 1].ev # "write"
                              /\ IsThunderBorgFrame(log[j].frame) } }

\* The call relocated the board at address first, if any: its next
\* channel after the scan is the one of first, a SET_I2C_ADD frame goes to
\* no other address, and it is written and moves the board whenever no
\* stale frame was read.
RelocatesOnly(end, first, writes) ==
    /\ \A i \in writes :
          /\ log[i].bus = op.bus
          /\ log[i].addr = first
          /\ log[i].frame = <<COMMAND_SET_I2C_ADD, op.new>>
    /\ log[end + 1] = Event("open", op.bus, first, <<>>, TRUE)
    /\ Cardinality(writes) <= 1
    /\ (\A i \in EventsOf("read") : log[i].frame[1] = COMMAND_GET_ID) =>
          /\ ret.exc = "none"
          /\ \E i \in writes : log[i].ok
          /\ <<op.bus, op.new>> \in tborgs

---------------------------------------------------------------------------
(* Properties of concurrent callers, under RaceSpec.                       *)

\* C35: when the callers of a session serialize their calls, every read
\* is answered with the response to the write the same call made just
\* before it.  (Without serialization a read can get the response to the
\* other caller's write: the witness.)
C35_SerializedReadsMatch ==
    lock.used =>
        \A c \in Callers :
            callers[c].src # -1 =>
                /\ callers[c].src = c
                /\ callers[c].fresh
                /\ callers[c].data[1] = callers[c].cmd

\* Without a lock, a caller that asked for motor one has read the
\* response to the other caller's request for LED one.
C35_Witness ==
    /\ ~lock.used
    /\ \E c \in Callers :
          /\ callers[c].cmd = COMMAND_GET_A
          /\ callers[c].src \in Callers \ {c}
          /\ callers[c].data[1] = COMMAND_GET_LED1

---------------------------------------------------------------------------
(* Properties of the identification of a board, under Spec.                *)

\* Read event i got the identification of a ThunderBorg at that bus and
\* address: six bytes, the echo of GET_ID, the board identifier.
Identifies(i, bus, addr) ==
    /\ log[i].ev = "read"
    /\ log[i].bus = bus /\ log[i].addr = addr
    /\ Len(log[i].frame) = _I2C_READ_LEN
    /\ log[i].frame[1] = COMMAND_GET_ID
    /\ log[i].frame[2] = _I2C_ID_THUNDERBORG

\* C36: the constructor, find_board and set_i2c_address take a device for
\* a ThunderBorg only if a read of the probe returned a frame of six bytes
\* that echoes GET_ID and carries the identifier 0x15; a frame with the
\* identifier but another first byte never makes the probe succeed.
C36_IdentifiedByEcho ==
    /\ (op.name = "ThunderBorg" /\ ret.exc = "none") =>
          \E i \in 1..Len(log) : Identifies(i, ret.tb.bus, ret.tb.addr)
    /\ op.name = "find_board" =>
          \A k \in 1..Len(ret.val) :
              \E i \in 1..Len(log) : Identifies(i, op.bus, ret.val[k])
    /\ op.name = "set_i2c_address" =>
          \A w \in SetAddressWrites :
              \E i \in 1..(w - 1) : Identifies(i, log[w].bus, log[w].addr)

\* Read event i ended a probe with success: it is the last read of its
\* _read and its frame has the length and the identifier of a ThunderBorg.
ProbeSucceeded(i) ==
    /\ log[i].ev = "read"
    /\ IsThunderBorgFrame(log[i].frame)
    /\ i = Len(log) \/ log[i + 1].ev # "write"

\* C37: whatever bus number is requested, one outside [0, 1] included,
\* when the probe succeeds on one of the fallback busses the constructor
\* returns and its streams are bound to a bus on which the probe
\* succeeded: the failing probe of a later bus does not undo the success.
C37_FallbackSuccessKept ==
    (/\ op.name = "ThunderBorg"
     /\ ~op.auto
     /\ \E i \in 1..Len(log) : log[i].bus # op.bus /\ ProbeSucceeded(i)) =>
        /\ ret.exc = "none"
        /\ ret.tb.open
        /\ \E i \in 1..Len(log) :
              /\ ProbeSucceeded(i)
              /\ log[i].bus = ret.tb.bus /\ log[i].addr = ret.tb.addr

\* C38: when the constructor returns, the streams of the instance are
\* open and bound to the bus and address of the latest probe, and that
\* probe read the identifier 0x15: on the direct hit, on a fallback bus
\* and after the scan of the automatic discovery.
C38_ReturnedOnLastProbe ==
    (op.name = "ThunderBorg" /\ ret.exc = "none") =>
        /\ ret.tb.has /\ ret.tb.open
        /\ Len(log) > 0
        /\ ProbeSucceeded(Len(log))
        /\ log[Len(log)].bus = ret.tb.bus
        /\ log[Len(log)].addr = ret.tb.addr
        /\ \E j \in EventsOf("open") :
              /\ \A k \in EventsOf("open") : k <= j
              /\ log[j] = Event("open", ret.tb.bus, ret.tb.addr, <<>>, TRUE)

\* ThunderBorg(auto_set_addr=True) where 0x15 cannot be bound and the
\* board is at 0x20: the scan went on to 0x76 and the constructor returned
\* bound to 0x20.
C38_Witness ==
    /\ op.name = "ThunderBorg"
    /\ op.auto
    /\ ret.exc = "none"
    /\ ret.tb = [has |-> TRUE, open |-> TRUE, bus |-> 1, addr |-> 32]
    /\ \E i \in EventsOf("open") : log[i].addr = SCAN_STOP - 1

---------------------------------------------------------------------------
(* Properties of the set operations, under SetSpec.                        *)

\* The operations that set something on the board with one frame.
SetNames ==
    {"set_motor_one", "set_motor_two", "set_both_motors", "halt_motors",
     "set_led_one", "set_led_two", "set_both_leds", "set_led_battery_state",
     "set_comms_failsafe", "set_battery_monitoring_limits",
     "write_external_led_word"}

\* The transfers the call attempted (an interrupted one included).
Attempts == EventsOf("write") \cup EventsOf("read") \cup EventsOf("interrupt")

\* C39: a set operation on a session that has its streams makes exactly
\* one write and no read and is never retried: when the write fails the
\* operation raises after that one attempt, when it succeeds the operation
\* returns without reading anything back.
C39_SetWritesOnce ==
    op.name \in SetNames =>
        /\ Len(log) >= 1
        /\ Attempts = {1}
        /\ log[1].ev \in {"write", "interrupt"}
        /\ Len(log[1].frame) >= 2
        /\ log[1].ok <=> ret.exc = "none"
        /\ \A i \in 2..Len(log) : log[i].ev = "sleep"

\* set_both_leds failed at its write, which raised IOError on open
\* streams, and made no other attempt.
C39_Witness ==
    /\ op.name = "set_both_leds"
    /\ ret.exc = "ThunderBorgException"
    /\ session.open
    /\ Len(log) = 1
    /\ log[1].ev = "write" /\ ~log[1].ok
    /\ log[1].frame[1] = COMMAND_SET_LEDS
=============================================================================
